---- MODULE Spec2Model ----
(***************************************************************************)
(* B+Tree index (BPlusTree::Insert, Remove, GetValue, IsEmpty, Begin) over *)
(* buffer-pool pages.  Pages are records addressed by page id; the arrays  *)
(* of a page are functions over 0..size-1, with the source's 0-based slots.*)
(***************************************************************************)
EXTENDS Integers, Sequences, FiniteSets, TLC

\* ------------------------------------------------------------------ bounds
\* keys are 0..MaxKey (0..MaxKey + 1 for the widest leaves)
MaxKey == 6
\* Remove calls made on one tree
MaxRemoves == 1
\* keys of the calls that threads make at the same time are 0..ConcMaxKey
ConcMaxKey == 3
\* values stored in the trie are 1..TrieMaxValue
TrieMaxValue == 2

\* every key a tree is ever called with
Keys == 0..(MaxKey + 2)
\* RID(k) is the record id the tests insert for key k; AltRid is another one
RID(k) == 100 + k
AltRid(k) == 200 + k

\* (leaf_max_size, internal_max_size) pairs the tree is constructed with
Configs == {<<3, 3>>, <<4, 4>>, <<5, 3>>}

\* ------------------------------------------------------- program constants
INVALID_PAGE_ID == -1
\* header_page_id_: the page that holds root_page_id_; tree pages are 1, 2, ...
HEADER_PAGE_ID == 0
\* content of array slots that IncreaseSize exposes without writing them
Stale == -2
\* key slot 0 of an internal page is never written: zeroed page memory
ZeroKey == 0

VARIABLES pages, root_page_id_, leaf_max_size_, internal_max_size_,
          kv, last, hung, removes, order, calls, serial,
          root_, stored, ever, got, latch_, tcalls

vars == <<pages, root_page_id_, leaf_max_size_, internal_max_size_,
          kv, last, hung, removes, order, calls, serial,
          root_, stored, ever, got, latch_, tcalls>>

\* the calls in flight, one per thread, and the tree that the mutators
\* leave when run one at a time
conc_vars == <<calls, serial>>
\* what the calls made one after the other keep of their own
seq_vars == <<leaf_max_size_, internal_max_size_, last, hung, removes, order>>
\* the Trie: its root node, the keys stored with their values, the keys that
\* an Insert has ever stored, and what the last GetValue returned
trie_vars == <<root_, stored, ever, got, latch_, tcalls>>
\* the Trie's latch and the Trie calls in flight, one per thread
tconc_vars == <<latch_, tcalls>>
\* the B+Tree and its calls
bpt_vars == <<pages, root_page_id_, kv, seq_vars, conc_vars>>

\* ------------------------------------------------------------ page layout
Arr(n, f(_)) == [i \in 0..(n - 1) |-> f(i)]

LeafInit(max_size) ==
  [leaf |-> TRUE, size |-> 0, max |-> max_size,
   K |-> Arr(0, LAMBDA i : Stale), V |-> Arr(0, LAMBDA i : Stale),
   next |-> INVALID_PAGE_ID]

InternalInit(max_size) ==
  [leaf |-> FALSE, size |-> 1, max |-> max_size,
   K |-> Arr(1, LAMBDA i : ZeroKey), V |-> Arr(1, LAMBDA i : INVALID_PAGE_ID),
   next |-> INVALID_PAGE_ID]

GetMinSize(p) == (p.max + 1) \div 2

IncreaseSize(p, n) ==
  [p EXCEPT !.size = p.size + n,
            !.K = Arr(p.size + n, LAMBDA i : IF i < p.size THEN p.K[i] ELSE Stale),
            !.V = Arr(p.size + n, LAMBDA i : IF i < p.size THEN p.V[i] ELSE Stale)]

SetKeyAt(p, i, k) == [p EXCEPT !.K[i] = k]
SetValueAt(p, i, v) == [p EXCEPT !.V[i] = v]
SetAt(p, i, k, v) == [p EXCEPT !.K[i] = k, !.V[i] = v]

\* ------------------------------------------------------------ buffer pool
\* NewPageGuarded(&page_id): a page id that no page of pg has.  Page ids are
\* opaque to the tree (stored, copied, compared with INVALID_PAGE_ID).
NewPageId(pg) ==
  CHOOSE id \in 1..(Cardinality(DOMAIN pg) + 1) :
    id \notin DOMAIN pg /\ \A j \in 1..(id - 1) : j \in DOMAIN pg

\* ----------------------------------------------------------- search path
\* the child slot followed in internal page p for key
ChildSlot(p, key) ==
  IF \E i \in 1..(p.size - 1) : key < p.K[i]
  THEN (CHOOSE i \in 1..(p.size - 1) :
          key < p.K[i] /\ \A j \in 1..(i - 1) : ~(key < p.K[j])) - 1
  ELSE p.size - 1

RECURSIVE Descend(_, _, _)
\* page ids from page id down to the leaf that the descent for key reaches
Descend(pg, id, key) ==
  IF pg[id].leaf THEN <<id>>
  ELSE <<id>> \o Descend(pg, pg[id].V[ChildSlot(pg[id], key)], key)

\* ctx.position_set_: the slot followed at each page of path but the last
PositionSet(pg, path, key) ==
  [i \in 1..(Len(path) - 1) |-> ChildSlot(pg[path[i]], key)]

\* the scan of a leaf for key: the first slot that holds it, or -1
LeafFind(p, key) ==
  IF \E i \in 0..(p.size - 1) : p.K[i] = key
  THEN CHOOSE i \in 0..(p.size - 1) :
          p.K[i] = key /\ \A j \in 0..(i - 1) : p.K[j] # key
  ELSE -1

\* GetValue: <<found, result vector>>
GetValue(pg, root, key) ==
  IF root = INVALID_PAGE_ID THEN <<FALSE, <<>> >>
  ELSE LET path == Descend(pg, root, key)
           leaf == pg[path[Len(path)]]
           i    == LeafFind(leaf, key)
       IN IF i >= 0 THEN <<TRUE, <<leaf.V[i]>> >> ELSE <<FALSE, <<>> >>

\* IsEmpty(): the header holds no root, or the root page holds no entry
IsEmpty(pg, root) ==
  IF root = INVALID_PAGE_ID THEN TRUE
  ELSE IF pg[root].leaf THEN pg[root].size = 0
  ELSE pg[root].size <= 1

\* -------------------------------------------------------------- insertion
\* write_set_.back() and the rest after pop_back()
Back(seq) == seq[Len(seq)]
PopBack(seq) == SubSeq(seq, 1, Len(seq) - 1)

\* the slot a sorted insert of key into p takes, scanning from slot lo
InsertSlot(p, lo, key) ==
  CHOOSE i \in lo..p.size :
    /\ (i = p.size \/ ~(key > p.K[i]))
    /\ \A j \in lo..(i - 1) : key > p.K[j]

\* shift-insert of (key, v) at slot i: entries from i up move one to the right
InsertAt(p, i, key, v) ==
  [p EXCEPT
     !.size = p.size + 1,
     !.K = Arr(p.size + 1, LAMBDA j : IF j >= i + 1 THEN p.K[j - 1]
                                      ELSE IF j = i THEN key ELSE p.K[j]),
     !.V = Arr(p.size + 1, LAMBDA j : IF j >= i + 1 THEN p.V[j - 1]
                                      ELSE IF j = i THEN v ELSE p.V[j])]

\* INSERTION_END: the key goes into the leaf, in sorted position
LeafInsert(p, key, value) == InsertAt(p, InsertSlot(p, 0, key), key, value)

\* insert of a separator and the page to its right into an internal page
InternalInsert(p, insert_key, insert_val) ==
  InsertAt(p, InsertSlot(p, 1, insert_key), insert_key, insert_val)

\* the key at slot m / 2 instead: for an odd m the last key of the old leaf
LeafTmpKeyFloor(p) == p.K[p.size \div 2]

\* step2: the key that separates the halves of the full leaf p
LeafTmpKey(p) == p.K[(p.size + 1) \div 2]

\* step2: the new leaf, with the second half of the full leaf p
NewLeaf(p, leaf_max) ==
  [LeafInit(leaf_max) EXCEPT
     !.size = p.size \div 2,
     !.K = Arr(p.size \div 2, LAMBDA idx : p.K[(p.size + 1) \div 2 + idx]),
     !.V = Arr(p.size \div 2, LAMBDA idx : p.V[(p.size + 1) \div 2 + idx]),
     !.next = p.next]

\* step2: split of the full leaf leaf_id; page_id is the new leaf's id
SplitLeaf(pg, leaf_id, page_id, leaf_max) ==
  (page_id :> NewLeaf(pg[leaf_id], leaf_max))
    @@ [pg EXCEPT ![leaf_id] = [IncreaseSize(@, -(@.size \div 2)) EXCEPT !.next = page_id]]

\* slot 0 of the new page always taken from the page that is split
NewPageValue0Plain(p, middle, special, insert_val0) == p.V[middle]

\* slot 0 of the new page: the child right of the key that goes up, which is
\* the incoming child when the incoming key itself goes up
NewPageValue0(p, middle, special, insert_val0) ==
  IF special THEN insert_val0 ELSE p.V[middle]

\* split of a full internal page that receives (insert_key, insert_val)
SplitInternal(p, insert_key0, insert_val0, internal_max) ==
  LET m == p.size
      insert_small_than_tmp_key == insert_key0 < p.K[(m + 1) \div 2]
      middle == IF insert_small_than_tmp_key THEN m \div 2 ELSE (m + 1) \div 2
      special == insert_small_than_tmp_key /\ insert_key0 >= p.K[middle]
      tmp_key == IF special THEN insert_key0 ELSE p.K[middle]
      insert_key == IF special THEN p.K[middle] ELSE insert_key0
      insert_val == IF special THEN p.V[middle] ELSE insert_val0
      idx == m - middle
      new_page == [InternalInit(internal_max) EXCEPT
                     !.size = idx,
                     !.K = Arr(idx, LAMBDA j : IF j = 0 THEN ZeroKey ELSE p.K[middle + j]),
                     !.V = Arr(idx, LAMBDA j : IF j = 0
                                               THEN NewPageValue0(p, middle, special, insert_val0)
                                               ELSE p.V[middle + j])]
      root == IncreaseSize(p, -idx)
  IN [old |-> IF insert_small_than_tmp_key
              THEN InternalInsert(root, insert_key, insert_val) ELSE root,
      new |-> IF insert_small_than_tmp_key
              THEN new_page ELSE InternalInsert(new_page, insert_key, insert_val),
      tmp_key |-> tmp_key]

\* a leaf choice that always takes the new leaf after a split
SplitTargetNew(key, tmp_key, leaf_id, page_id) == page_id

\* the leaf that receives the key after a split: the new one if key > tmp_key
SplitTarget(key, tmp_key, leaf_id, page_id) ==
  IF key > tmp_key THEN page_id ELSE leaf_id

\* a new root page whose slot 1 has the child but not the key
NewRootKeyless(internal_max, below, tmp_key, page_id) ==
  SetAt(IncreaseSize(SetValueAt(InternalInit(internal_max), 0, below), 1),
        1, ZeroKey, page_id)

\* the new root page of ROOT_SPLIT, above page below and page page_id
NewRoot(internal_max, below, tmp_key, page_id) ==
  SetAt(IncreaseSize(SetValueAt(InternalInit(internal_max), 0, below), 1),
        1, tmp_key, page_id)

\* a root split whose slot 0 points below the old root instead of at it
RootSplitBelow(t, tmp_key, page_id) ==
  [t EXCEPT !.pg = (NewPageId(t.pg) :>
                      NewRoot(t.imax, IF t.pg[t.root].leaf THEN t.root ELSE t.pg[t.root].V[0],
                              tmp_key, page_id)) @@ t.pg,
            !.root = NewPageId(t.pg)]

\* ROOT_SPLIT: a new internal root above the old root and the new page
RootSplit(t, tmp_key, page_id) ==
  [t EXCEPT !.pg = (NewPageId(t.pg) :> NewRoot(t.imax, t.root, tmp_key, page_id)) @@ t.pg,
            !.root = NewPageId(t.pg)]

RECURSIVE SplitUp(_, _, _, _)
RECURSIVE Propagate(_, _, _, _)
\* the pages old and new of split s replace page id in tree t
WithSplit(t, id, page_id, s) ==
  [t EXCEPT !.pg = (page_id :> s.new) @@ [t.pg EXCEPT ![id] = s.old]]

\* split up: (insert_key, insert_val) enters the page on top of write_set
SplitUp(t, write_set, insert_key, insert_val) ==
  IF t.pg[Back(write_set)].size < t.pg[Back(write_set)].max
  THEN [t EXCEPT !.pg[Back(write_set)] = InternalInsert(@, insert_key, insert_val)]
  ELSE Propagate(WithSplit(t, Back(write_set), NewPageId(t.pg),
                           SplitInternal(t.pg[Back(write_set)], insert_key, insert_val, t.imax)),
                 PopBack(write_set),
                 SplitInternal(t.pg[Back(write_set)], insert_key, insert_val, t.imax).tmp_key,
                 NewPageId(t.pg))

\* (tmp_key, page_id) goes to the parent, or to a new root when there is none
Propagate(t, write_set, tmp_key, page_id) ==
  IF write_set = <<>> THEN RootSplit(t, tmp_key, page_id)
  ELSE SplitUp(t, write_set, tmp_key, page_id)

\* a duplicate check that scans a leaf from slot 1, as the internal scans do
DuplicateCheckFrom1(leaf, key) == \E i \in 1..(leaf.size - 1) : leaf.K[i] = key

\* check is here first: the key is already in the target leaf
DuplicateCheck(leaf, key) == \E i \in 0..(leaf.size - 1) : leaf.K[i] = key

\* INSERTION_END in tree up, into leaf target
InsertionEnd(up, target, key, value) ==
  [pg |-> [up.pg EXCEPT ![target] = LeafInsert(@, key, value)],
   root |-> up.root, ret |-> TRUE]

\* step2 and on: the full leaf leaf_id is split, page_id is the new leaf
InsertWithSplit(t, key, value, leaf_id, write_set, page_id, tmp_key) ==
  InsertionEnd(Propagate([t EXCEPT !.pg = SplitLeaf(t.pg, leaf_id, page_id, t.lmax)],
                         write_set, tmp_key, page_id),
               SplitTarget(key, tmp_key, leaf_id, page_id), key, value)

\* the part of Insert after step1; path is the descent, the leaf last
InsertAtLeaf(t, key, value, path) ==
  IF DuplicateCheck(t.pg[Back(path)], key)
  THEN [pg |-> t.pg, root |-> t.root, ret |-> FALSE]
  ELSE IF t.pg[Back(path)].size # t.pg[Back(path)].max
  THEN InsertionEnd(t, Back(path), key, value)
  ELSE InsertWithSplit(t, key, value, Back(path), PopBack(path), NewPageId(t.pg),
                       LeafTmpKey(t.pg[Back(path)]))

\* t is [pg, root, lmax, imax]; the result is [pg, root, ret]
Insert(t, key, value) ==
  IF t.root = INVALID_PAGE_ID
  THEN [pg |-> (NewPageId(t.pg) :> SetAt(IncreaseSize(LeafInit(t.lmax), 1), 0, key, value))
                 @@ t.pg,
        root |-> NewPageId(t.pg), ret |-> TRUE]
  ELSE InsertAtLeaf(t, key, value, Descend(t.pg, t.root, key))

\* ---------------------------------------------------------------- removal
\* the entry at slot i leaves p: the entries above it move one to the left
DeleteAt(p, i) ==
  [p EXCEPT
     !.size = p.size - 1,
     !.K = Arr(p.size - 1, LAMBDA j : IF j >= i THEN p.K[j + 1] ELSE p.K[j]),
     !.V = Arr(p.size - 1, LAMBDA j : IF j >= i THEN p.V[j + 1] ELSE p.V[j])]

\* delete key: the scan of p from slot lo and the shift-delete of the first hit
DeleteKey(p, lo, key) ==
  IF \E i \in lo..(p.size - 1) : p.K[i] = key
  THEN DeleteAt(p, CHOOSE i \in lo..(p.size - 1) :
                     p.K[i] = key /\ \A j \in lo..(i - 1) : p.K[j] # key)
  ELSE p

RECURSIVE CopyUp(_, _)
\* for (j = ..; j < size; j++) { SetKeyAt(j, KeyAt(j-1)); SetValueAt(j, ValueAt(j-1)); }
CopyUp(p, j) ==
  IF j >= p.size THEN p
  ELSE CopyUp(SetAt(p, j, p.K[j - 1], p.V[j - 1]), j + 1)

\* the siblings fetched for the child at slot position of parent
Siblings(parent, position) ==
  IF position = parent.size - 1
  THEN [prev |-> parent.V[position - 1], next |-> INVALID_PAGE_ID]
  ELSE IF position = 0
  THEN [prev |-> INVALID_PAGE_ID, next |-> parent.V[position + 1]]
  ELSE [prev |-> parent.V[position - 1], next |-> parent.V[position + 1]]

BiggerSize(pg, sib) ==
  IF sib.next = INVALID_PAGE_ID THEN pg[sib.prev].size
  ELSE IF sib.prev = INVALID_PAGE_ID THEN pg[sib.next].size
  ELSE IF pg[sib.next].size >= pg[sib.prev].size
       THEN pg[sib.next].size ELSE pg[sib.prev].size

\* the test with a strict comparison: the next sibling wins on equal size
StealFromPrevStrict(pg, sib) ==
  \/ sib.next = INVALID_PAGE_ID
  \/ (sib.prev # INVALID_PAGE_ID /\ pg[sib.next].size < pg[sib.prev].size)

\* the test that picks the previous sibling as the one to steal from
StealFromPrev(pg, sib) ==
  \/ sib.next = INVALID_PAGE_ID
  \/ (sib.prev # INVALID_PAGE_ID /\ pg[sib.next].size <= pg[sib.prev].size)

\* the pages a Remove in its rebalance holds a guard of
Held(ids) == ids \ {INVALID_PAGE_ID}

\* steal one element from prev
LeafStealPrev(pg, leaf_id, prev_id) ==
  [pg EXCEPT
     ![leaf_id] = SetAt(CopyUp(IncreaseSize(@, 1), 1), 0,
                        pg[prev_id].K[pg[prev_id].size - 1],
                        pg[prev_id].V[pg[prev_id].size - 1]),
     ![prev_id] = IncreaseSize(@, -1)]

\* steal one element from next without the update of next key in the parent
LeafStealNextKeyKept(pg, leaf_id, next_id, root_id, leaf_position) ==
  [pg EXCEPT
     ![leaf_id] = SetAt(IncreaseSize(@, 1), @.size, pg[next_id].K[0], pg[next_id].V[0]),
     ![next_id] = DeleteAt(@, 0)]

\* steal one element from next, and update next key in the parent root_id
LeafStealNext(pg, leaf_id, next_id, root_id, leaf_position) ==
  [pg EXCEPT
     ![leaf_id] = SetAt(IncreaseSize(@, 1), @.size, pg[next_id].K[0], pg[next_id].V[0]),
     ![next_id] = DeleteAt(@, 0),
     ![root_id] = SetKeyAt(@, leaf_position + 1, DeleteAt(pg[next_id], 0).K[0])]

RECURSIVE UpdateParent(_, _, _, _, _, _)
\* update parent: the ancestors left in write_set, from the lowest up; held
\* are the pages whose write guard this call still owns below them
UpdateParent(pg, write_set, position_set, key, update_key, held) ==
  IF write_set = <<>> THEN [pg |-> pg, blocked |-> FALSE]
  ELSE IF pg[Back(write_set)].K[Back(position_set)] # key
  THEN UpdateParent(pg, PopBack(write_set), PopBack(position_set), key, update_key, held)
  ELSE IF pg[Back(write_set)].V[Back(position_set)] \in held
  THEN [pg |-> pg, blocked |-> TRUE]
  ELSE UpdateParent([pg EXCEPT ![Back(write_set)] =
                       SetKeyAt(@, Back(position_set), update_key)],
                    PopBack(write_set), PopBack(position_set), key, update_key, held)

\* the result of a Remove that ends in the update parent loop, whose run is u
AfterUpdate(u, root, asserts) ==
  [pg |-> u.pg, root |-> root, asserts |-> asserts, blocked |-> u.blocked]

\* the entries of page from appended to page to
AppendLeaf(to, from) ==
  [to EXCEPT
     !.size = to.size + from.size,
     !.K = Arr(to.size + from.size,
               LAMBDA i : IF i < to.size THEN to.K[i] ELSE from.K[i - to.size]),
     !.V = Arr(to.size + from.size,
               LAMBDA i : IF i < to.size THEN to.V[i] ELSE from.V[i - to.size]),
     !.next = from.next]

\* MERGE_NODE: leaf from_id is appended to leaf to_id; from_id doubles its size
MergeLeaf(pg, to_id, from_id) ==
  [pg EXCEPT ![to_id] = AppendLeaf(@, pg[from_id]),
             ![from_id] = IncreaseSize(@, @.size)]

\* an append that copies the key of slot 0 of from, not the separator
AppendInternalKey0(to, from, delete_key) ==
  [to EXCEPT
     !.size = to.size + from.size,
     !.K = Arr(to.size + from.size,
               LAMBDA i : IF i < to.size THEN to.K[i] ELSE from.K[i - to.size]),
     !.V = Arr(to.size + from.size,
               LAMBDA i : IF i < to.size THEN to.V[i] ELSE from.V[i - to.size])]

\* the entries of internal page from appended to to, delete_key between them
AppendInternal(to, from, delete_key) ==
  [to EXCEPT
     !.size = to.size + from.size,
     !.K = Arr(to.size + from.size,
               LAMBDA i : IF i < to.size THEN to.K[i]
                          ELSE IF i = to.size THEN delete_key
                          ELSE from.K[i - to.size]),
     !.V = Arr(to.size + from.size,
               LAMBDA i : IF i < to.size THEN to.V[i] ELSE from.V[i - to.size])]

\* internal merge: the parent's separator comes down between the two pages
MergeInternal(pg, to_id, from_id, delete_key) ==
  [pg EXCEPT ![to_id] = AppendInternal(@, pg[from_id], delete_key),
             ![from_id] = IncreaseSize(@, @.size)]

\* internal steal from prev; root_id is the page that steals
InternalStealPrev(pg, root_id, prev_id, parent_id, internal_position) ==
  [pg EXCEPT
     ![root_id] =
        SetValueAt(
          SetValueAt(
            SetKeyAt(CopyUp(IncreaseSize(@, 1), 2), 1, pg[parent_id].K[internal_position]),
            1, @.V[0]),
          0, pg[prev_id].V[pg[prev_id].size - 1]),
     ![parent_id] = SetKeyAt(@, internal_position, pg[prev_id].K[pg[prev_id].size - 1]),
     ![prev_id] = IncreaseSize(@, -1)]

\* internal steal from next; root_id is the page that steals
InternalStealNext(pg, root_id, next_id, parent_id, internal_position) ==
  [pg EXCEPT
     ![root_id] = SetAt(IncreaseSize(@, 1), @.size,
                        pg[parent_id].K[internal_position + 1], pg[next_id].V[0]),
     ![parent_id] = SetKeyAt(@, internal_position + 1, pg[next_id].K[1]),
     ![next_id] = DeleteAt(SetValueAt(@, 0, @.V[1]), 1)]

\* a scan for delete_key that starts one slot late
IsFindFrom2(p, delete_key) == \E i \in 2..(p.size - 1) : p.K[i] = delete_key

\* a slot in 1..size-1 of p holds delete_key: is_find
IsFind(p, delete_key) == \E i \in 1..(p.size - 1) : p.K[i] = delete_key

RECURSIVE MergeLoop(_, _, _, _, _, _, _, _)
\* the steal branch of the loop: root_id steals from a sibling, then the
\* update parent loop runs; sib are the siblings of root_id
InternalSteal(r, root_id, write_set, position_set, delete_key, key, update_key, sib, held) ==
  AfterUpdate(
    UpdateParent(
      IF StealFromPrev(r.pg, sib)
      THEN InternalStealPrev(r.pg, root_id, sib.prev, Back(write_set), Back(position_set))
      ELSE InternalStealNext(r.pg, root_id, sib.next, Back(write_set), Back(position_set)),
      PopBack(write_set), PopBack(position_set), key, update_key,
      Held(held \cup {root_id, sib.prev, sib.next})),
    r.root,
    IF StealFromPrev(r.pg, sib)
       /\ delete_key = r.pg[Back(write_set)].K[Back(position_set)]
    THEN r.asserts \cup {"position0"} ELSE r.asserts)

\* merge!: page from_id is appended to page to_id, and the loop goes on one
\* level up with the separator delete_key of the two
InternalMerge(r, to_id, from_id, write_set, position_set, delete_key, key, update_key) ==
  MergeLoop([r EXCEPT !.pg = MergeInternal(r.pg, to_id, from_id, delete_key)],
            Back(write_set), PopBack(write_set), PopBack(position_set),
            delete_key, key, update_key, {Back(write_set)})

\* a loop end that leaves the header as it is
RootKept(r, root_id) == r.root

\* change root!: the root page root_id with one child left gives way to it
ChangeRoot(r, root_id) ==
  IF r.pg[root_id].size = 1 THEN r.pg[root_id].V[0] ELSE r.root

\* the loop body after delete key: r is the run so far, root_id the page that
\* lost a separator
MergeOrSteal(r, root_id, write_set, position_set, delete_key, key, update_key, sib, held) ==
  IF write_set = <<>>
  THEN [pg |-> r.pg, root |-> ChangeRoot(r, root_id),
        asserts |-> r.asserts, blocked |-> FALSE]
  ELSE IF BiggerSize(r.pg, sib) - 1 >= GetMinSize(r.pg[root_id])
  THEN InternalSteal(r, root_id, write_set, position_set, delete_key, key, update_key, sib,
                     held)
  ELSE IF Back(position_set) # 0
  THEN InternalMerge(r, sib.prev, root_id, write_set, position_set,
                     r.pg[Back(write_set)].K[Back(position_set)], key, update_key)
  ELSE InternalMerge(r, root_id, sib.next, write_set, position_set,
                     r.pg[Back(write_set)].K[Back(position_set) + 1], key, update_key)

\* the while(true) after MERGE_NODE: delete_key leaves page root_id, then the
\* page is merged with or steals from a sibling; r is [pg, root, asserts]
MergeLoop(r, root_id, write_set, position_set, delete_key, key, update_key, held) ==
  MergeOrSteal([r EXCEPT !.pg[root_id] = DeleteKey(@, 1, delete_key),
                         !.asserts = IF IsFind(r.pg[root_id], delete_key)
                                     THEN @ ELSE @ \cup {"is_find"}],
               root_id, write_set, position_set, delete_key, key, update_key,
               IF write_set = <<>> THEN [prev |-> INVALID_PAGE_ID, next |-> INVALID_PAGE_ID]
               ELSE Siblings(r.pg[Back(write_set)], Back(position_set)),
               held)

\* the leaf steal and the update parent loop; pg is the tree after the steal
LeafStealEnd(pg, root, leaf_id, root_id, leaf_position, write_set, position_set, key, held) ==
  AfterUpdate(
    UpdateParent(IF leaf_position > 0
                 THEN [pg EXCEPT ![root_id] = SetKeyAt(@, leaf_position, pg[leaf_id].K[0])]
                 ELSE pg,
                 write_set, position_set, key, pg[leaf_id].K[0], held),
    root, {})

\* MERGE_NODE; pg is the tree after the leaf merge into to_id
LeafMergeEnd(pg, root, to_id, root_id, write_set, position_set, delete_key, key, held) ==
  MergeLoop([pg |-> pg, root |-> root, asserts |-> {}],
            root_id, write_set, position_set, delete_key, key, pg[to_id].K[0], held)

\* the under-full leaf leaf_id at slot leaf_position of its parent root_id
\* steals from or merges with one of its siblings sib
LeafRebalance(pg, root, leaf_id, root_id, leaf_position, write_set, position_set, key, sib) ==
  IF BiggerSize(pg, sib) - 1 >= GetMinSize(pg[leaf_id])
  THEN LeafStealEnd(IF StealFromPrev(pg, sib)
                    THEN LeafStealPrev(pg, leaf_id, sib.prev)
                    ELSE LeafStealNext(pg, leaf_id, sib.next, root_id, leaf_position),
                    root, leaf_id, root_id, leaf_position, write_set, position_set, key,
                    Held({leaf_id, root_id, sib.prev, sib.next}))
  ELSE IF leaf_position # 0
  THEN LeafMergeEnd(MergeLeaf(pg, sib.prev, leaf_id), root, sib.prev, root_id,
                    write_set, position_set, pg[root_id].K[leaf_position], key,
                    Held({root_id, sib.next}))
  ELSE LeafMergeEnd(MergeLeaf(pg, leaf_id, sib.next), root, leaf_id, root_id,
                    write_set, position_set, pg[root_id].K[leaf_position + 1], key,
                    Held({root_id, sib.prev}))

\* the part of Remove after delete key; pg is the tree after it
AfterDelete(pg, root, leaf_id, write_set, position_set, key) ==
  IF pg[leaf_id].size >= GetMinSize(pg[leaf_id])
  THEN [pg |-> pg, root |-> root, asserts |-> {}, blocked |-> FALSE]
  ELSE IF write_set = <<>>
  THEN [pg |-> pg, root |-> IF pg[leaf_id].size > 0 THEN root ELSE INVALID_PAGE_ID,
        asserts |-> {}, blocked |-> FALSE]
  ELSE LeafRebalance(pg, root, leaf_id, Back(write_set), Back(position_set),
                     PopBack(write_set), PopBack(position_set), key,
                     Siblings(pg[Back(write_set)], Back(position_set)))

\* the part of Remove after step1; path is the descent, the leaf last
RemoveAtLeaf(t, key, path) ==
  AfterDelete([t.pg EXCEPT ![Back(path)] = DeleteKey(@, 0, key)], t.root, Back(path),
              PopBack(path), PositionSet(t.pg, path, key), key)

\* t is [pg, root, lmax, imax]; the result is [pg, root, asserts, blocked]
Remove(t, key) ==
  IF t.root = INVALID_PAGE_ID
  THEN [pg |-> t.pg, root |-> t.root, asserts |-> {}, blocked |-> FALSE]
  ELSE RemoveAtLeaf(t, key, Descend(t.pg, t.root, key))

\* ------------------------------------------------------------------ state
Tree == [pg |-> pages, root |-> root_page_id_,
         lmax |-> leaf_max_size_, imax |-> internal_max_size_]

RECURSIVE Reach(_, _, _)
\* the page ids that child pointers and next-leaf links lead to from frontier
Reach(pg, frontier, seen) ==
  IF frontier = {} THEN seen
  ELSE LET id == CHOOSE x \in frontier : TRUE
           p == pg[id]
           out == (IF p.leaf THEN {p.next} ELSE {p.V[i] : i \in 0..(p.size - 1)})
                  \ {INVALID_PAGE_ID}
           s1 == seen \cup {id}
       IN Reach(pg, (frontier \cup out) \ s1, s1)

\* the pages the tree can still fetch: ids are read from the header, from
\* child slots and from next-leaf links only
Live(pg, root) ==
  IF root = INVALID_PAGE_ID THEN <<>>
  ELSE [id \in Reach(pg, {root}, {}) |-> pg[id]]

NoValue == 0

\* the keys the calls on this tree take: a tree whose leaves hold five
\* entries gets one key more, so that its leaves fill up as often
KeyRange == 0..(IF leaf_max_size_ >= 5 THEN MaxKey + 1 ELSE MaxKey)
\* the (key, value) pairs Insert is called with
InsertInputs == {<<k, RID(k)>> : k \in KeyRange} \cup {<<0, AltRid(0)>>}
NoOp == [op |-> "none", key |-> 0, ret |-> "none"]

\* the threads that call into one tree
Threads == {"t1", "t2"}
\* a thread that is in no call; ret is "missed" once a lookup of the thread
\* has returned false for a stable key, "none" otherwise
Idle(ret) ==
  [op |-> "none", key |-> 0, pc |-> "idle", root |-> INVALID_PAGE_ID,
   at |-> INVALID_PAGE_ID, stable |-> FALSE, ret |-> ret, guards |-> {}]

\* keys of the Trie calls: the empty key, a chain "a", "ab", "abc", and a
\* second key "abd" below "ab"
TrieKeys ==
  {<<>>, <<"a">>, <<"a", "b">>, <<"a", "b", "c">>, <<"a", "b", "d">>}
\* values of type T; T{} is NoValue
TrieValues == 1..TrieMaxValue
\* the types T that Insert<T> and GetValue<T> are called with; NoType is the
\* dynamic type of a plain TrieNode, which is no TrieNodeWithValue<T>
TrieTypes == {"int", "std::string"}
NoType == "TrieNode"

\* stored[key] of a key that is not stored
NotStored == [type |-> NoType, value |-> NoValue]

\* TrieNode(key_char): is_end_ false, no children.  A plain TrieNode has no
\* value_: NoValue stands for "not a TrieNodeWithValue"
TrieNode(key_char) ==
  [key_ |-> key_char, is_end_ |-> FALSE, type_ |-> NoType, value_ |-> NoValue,
   children_ |-> <<>>]

\* a thread in no Trie call
TrieIdle ==
  [op |-> "none", T |-> NoType, key |-> <<>>, value |-> NoValue, pc |-> "idle",
   i |-> 0, valid |-> TRUE]

\* the state after the constructors BPlusTree(...) and Trie()
Init ==
  /\ pages = <<>>
  /\ root_page_id_ = INVALID_PAGE_ID
  /\ \E c \in Configs : leaf_max_size_ = c[1] /\ internal_max_size_ = c[2]
  /\ kv = [k \in Keys |-> NoValue]
  /\ last = NoOp
  /\ hung = FALSE
  /\ removes = 0
  /\ order = <<>>
  /\ calls = [t \in Threads |-> Idle("none")]
  /\ serial = [pg |-> <<>>, root |-> INVALID_PAGE_ID]
  /\ root_ = TrieNode("")
  /\ stored = [key \in TrieKeys |-> NotStored]
  /\ got = [success |-> FALSE, value |-> NoValue]
  /\ latch_ = [w |-> "none", r |-> {}]
  /\ tcalls = [t \in Threads |-> TrieIdle]
  /\ ever = {}

\* the call Insert(key, value), whose run is r, returns
InsertReturns(key, value, r) ==
  /\ pages' = Live(r.pg, r.root)
  /\ root_page_id_' = r.root
  /\ kv' = IF r.ret THEN [kv EXCEPT ![key] = value] ELSE kv
  /\ last' = [op |-> "Insert", key |-> key, ret |-> IF r.ret THEN "true" ELSE "false"]

InsertCall(key, value) ==
  /\ ~hung
  /\ InsertReturns(key, value, Insert(Tree, key, value))
  /\ UNCHANGED <<leaf_max_size_, internal_max_size_, hung, removes, order>>
  /\ UNCHANGED <<conc_vars, trie_vars>>

\* how a Remove call whose run is r can end.  Remove may ask for the read
\* latch of a page it holds the write guard of: then the latch either throws
\* (the exception leaves Remove, the guards are released) or blocks (the call
\* never returns)
Outcomes(r) == IF r.blocked THEN {"threw", "hung"} ELSE {"void"}

\* the call Remove(key), whose run is r, ends
RemoveEnds(key, r) ==
  /\ pages' = Live(r.pg, r.root)
  /\ root_page_id_' = r.root
  /\ kv' = [kv EXCEPT ![key] = NoValue]
  /\ \E ret \in Outcomes(r) :
       /\ last' = [op |-> "Remove", key |-> key, ret |-> ret]
       /\ hung' = (ret = "hung")

RemoveCall(key) ==
  /\ ~hung
  /\ removes < MaxRemoves
  /\ removes' = removes + 1
  /\ RemoveEnds(key, Remove(Tree, key))
  /\ UNCHANGED <<leaf_max_size_, internal_max_size_, order>>
  /\ UNCHANGED <<conc_vars, trie_vars>>

Next ==
  \/ \E in \in InsertInputs : InsertCall(in[1], in[2])
  \/ \E key \in KeyRange : RemoveCall(key)

Spec == Init /\ [][Next]_vars

\* ------------------------------------------------- fill, then drain a tree
\* a tree is filled by Insert calls, then Remove calls alone work on it, as
\* many as it takes: removes counts them up to MaxRemoves and stays there
DrainInsert(key, value) ==
  /\ removes = 0
  /\ InsertCall(key, value)

DrainRemove(key) ==
  /\ ~hung
  /\ removes' = IF removes < MaxRemoves THEN removes + 1 ELSE removes
  /\ RemoveEnds(key, Remove(Tree, key))
  /\ UNCHANGED <<leaf_max_size_, internal_max_size_, order>>
  /\ UNCHANGED <<conc_vars, trie_vars>>

DrainNext ==
  \/ \E in \in InsertInputs : DrainInsert(in[1], in[2])
  \/ \E key \in KeyRange : DrainRemove(key)

SpecDrain == Init /\ [][DrainNext]_vars

\* ------------------------------------ insert 1..N, remove in reverse order
\* the keys 1..N of the permutation test
RevKeys == KeyRange \ {0}
\* the keys of sequence seq
Range(seq) == {seq[i] : i \in 1..Len(seq)}

\* Insert of a key not inserted yet; order is the sequence of keys inserted
RevInsert(key) ==
  /\ ~hung
  /\ removes = 0
  /\ key \notin Range(order)
  /\ InsertReturns(key, RID(key), Insert(Tree, key, RID(key)))
  /\ order' = Append(order, key)
  /\ UNCHANGED <<leaf_max_size_, internal_max_size_, hung, removes>>
  /\ UNCHANGED <<conc_vars, trie_vars>>

\* Remove of the key inserted last among those not removed yet
RevRemove ==
  /\ ~hung
  /\ removes < Len(order)
  /\ removes' = removes + 1
  /\ RemoveEnds(order[Len(order) - removes], Remove(Tree, order[Len(order) - removes]))
  /\ UNCHANGED <<leaf_max_size_, internal_max_size_, order>>
  /\ UNCHANGED <<conc_vars, trie_vars>>

RevNext ==
  \/ \E key \in RevKeys : RevInsert(key)
  \/ RevRemove

SpecRev == Init /\ [][RevNext]_vars

\* ------------------------------------------------ calls from several threads
\* the keys the concurrent calls take, and the tree they work on
ConcKeys == 0..ConcMaxKey
ConcConfigs == {<<3, 3>>}

\* a tree whose mutators fetch the header page as GetValue does, with
\* FetchPageBasic
HeaderFetchBasic(op) ==
  IF op = "IsEmpty" THEN "R" ELSE "B"

\* the guard a call fetches the header page with: FetchPageWrite ("W"),
\* FetchPageRead ("R") or FetchPageBasic ("B": a pin, no latch)
HeaderFetch(op) ==
  IF op \in {"Insert", "Remove", "GetRootPageId"} THEN "W"
  ELSE IF op = "IsEmpty" THEN "R"
  ELSE "B"

\* the guard a call fetches the pages of the tree with
PageFetch(op) ==
  IF op \in {"Insert", "Remove"} THEN "W"
  ELSE IF op = "IsEmpty" THEN "R"
  ELSE "B"

\* a guard is <<the variable that owns it, page id, mode>>
Guard(owner, id, mode) == <<owner, id, mode>>

\* thread t can have page id in mode now: a write latch excludes every other
\* latch, a read latch excludes write latches, a basic guard waits for nobody
CanFetch(t, id, mode) ==
  \/ mode = "B"
  \/ \A u \in Threads \ {t} : \A g \in calls[u].guards :
       g[2] = id => (g[3] = "B" \/ (g[3] = "R" /\ mode = "R"))

\* the page ids that page p holds, in slot order
ChildSeq(p) == IF p.leaf THEN <<p.next>> ELSE [i \in 1..p.size |-> p.V[i - 1]]

RECURSIVE Visit(_, _, _)
\* the pages of pg that the ids of stack lead to, each once, parents before
\* children and left before right
Visit(pg, stack, seen) ==
  IF stack = <<>> THEN seen
  ELSE IF Head(stack) \notin DOMAIN pg \/ Head(stack) \in Range(seen)
  THEN Visit(pg, Tail(stack), seen)
  ELSE Visit(pg, ChildSeq(pg[Head(stack)]) \o Tail(stack), Append(seen, Head(stack)))

\* the place of page id in sequence seq; the header and INVALID stay
PlaceIn(seq, id) ==
  IF id \in Range(seq) THEN CHOOSE i \in 1..Len(seq) : seq[i] = id ELSE id

\* page p with the page ids it holds replaced by their places in seq
Remap(p, seq) ==
  IF p.leaf THEN [p EXCEPT !.next = PlaceIn(seq, @)]
  ELSE [p EXCEPT !.V = [j \in DOMAIN p.V |-> PlaceIn(seq, p.V[j])]]

\* the pages seq of pg, numbered 1, 2, ... in that order.  Page ids are opaque
\* to the tree, so this is the same tree
Renumber(pg, seq) == [i \in 1..Len(seq) |-> Remap(pg[seq[i]], seq)]

\* the page ids a buffer pool has to keep: the root and what the calls in
\* flight have a guard on or remember
Roots(root, cs) ==
  <<root, cs["t1"].root, cs["t1"].at, cs["t2"].root, cs["t2"].at>>

\* calls cs with their page ids replaced by their places in seq
RemapCalls(cs, seq) ==
  [t \in Threads |->
     [cs[t] EXCEPT !.root = PlaceIn(seq, @), !.at = PlaceIn(seq, @),
                   !.guards = {Guard(g[1], PlaceIn(seq, g[2]), g[3]) : g \in @}]]

\* the tree [pg, root] and the calls cs become the state; seq are the pages
\* that stay, the others are dropped from the pool
PublishAs(pg, root, cs, seq) ==
  /\ pages' = Renumber(pg, seq)
  /\ root_page_id_' = PlaceIn(seq, root)
  /\ calls' = RemapCalls(cs, seq)

Publish(pg, root, cs) == PublishAs(pg, root, cs, Visit(pg, Roots(root, cs), <<>>))

\* a call that moves its leaf guard out of the scope: only the Context's
\* guards leave with the call
DestroyedWithContext(guards) == {g \in guards : g[1] # "leaf_guard"}

\* the guards that leave with the call: the Context (header_page_,
\* write_set_) and every local guard are destroyed when the call returns
DestroyedAtReturn(guards) == guards

\* the thread's state after its call has returned, ret kept
Returned(c, ret) == [Idle(ret) EXCEPT !.guards = c.guards \ DestroyedAtReturn(c.guards)]

\* the tree as the call of thread t sees it: ctx.root_page_id_ is the root
CtxTree(t) == [Tree EXCEPT !.root = calls[t].root]

\* tree r with its pages numbered in the order seq
SerialAs(r, seq) == [pg |-> Renumber(r.pg, seq), root |-> PlaceIn(seq, r.root)]

\* the tree that one more call leaves when the mutators run one at a time
SerialApply(s, op, key) ==
  LET t == [pg |-> s.pg, root |-> s.root,
            lmax |-> leaf_max_size_, imax |-> internal_max_size_]
      r == IF op = "Insert" THEN Insert(t, key, RID(key)) ELSE Remove(t, key)
  IN SerialAs(r, Visit(r.pg, <<r.root>>, <<>>))

\* a lookup of key is served from a stable key no longer
Unstable(cs, key) ==
  [u \in Threads |->
     IF cs[u].op = "GetValue" /\ cs[u].key = key /\ cs[u].pc # "idle"
     THEN [cs[u] EXCEPT !.stable = FALSE] ELSE cs[u]]

\* no Insert or Remove of key is in flight
NoMutatorOn(key) ==
  \A u \in Threads :
    ~(calls[u].op \in {"Insert", "Remove"} /\ calls[u].pc # "idle" /\ calls[u].key = key)

\* Insert or Remove are called: the header page is fetched and
\* ctx.root_page_id_ is read from it
MutatorBegin(t, op, key) ==
  /\ calls[t].pc = "idle"
  /\ calls[t].ret = "none"
  /\ CanFetch(t, HEADER_PAGE_ID, HeaderFetch(op))
  /\ calls' = [Unstable(calls, key) EXCEPT ![t] =
                 [op |-> op, key |-> key, pc |-> "header", root |-> root_page_id_,
                  at |-> INVALID_PAGE_ID, stable |-> FALSE, ret |-> "none",
                  guards |-> {Guard("ctx.header_page_", HEADER_PAGE_ID, HeaderFetch(op))}]]
  /\ serial' = SerialApply(serial, op, key)
  /\ UNCHANGED <<pages, root_page_id_, kv>>
  /\ UNCHANGED <<seq_vars, trie_vars>>

\* the call of thread t returns ret and leaves the tree [pg, root]
MutatorReturns(t, pg, root, ret) ==
  /\ Publish(pg, root, [calls EXCEPT ![t] = Returned(@, "none")])
  /\ kv' = IF calls[t].op = "Remove" THEN [kv EXCEPT ![calls[t].key] = NoValue]
           ELSE IF ret = "true" THEN [kv EXCEPT ![calls[t].key] = RID(calls[t].key)]
           ELSE kv

\* the call of thread t has its guards on the search path and has made the
\* first of its edits: the tree is [pg, root]; page_id is the new leaf, if any
MutatorAtMid(t, pg, path, leaf_guard, page_id) ==
  /\ Publish(pg, root_page_id_,
             [calls EXCEPT ![t] =
                [@ EXCEPT !.pc = "mid", !.at = page_id,
                          !.guards = @ \cup {Guard("ctx.write_set_", id, "W") :
                                                id \in Range(PopBack(path))}
                                       \cup {Guard("leaf_guard", leaf_guard, "W")}]])
  /\ UNCHANGED kv

\* Insert from the empty-tree test to the split of the target leaf (step2)
InsertEdit(t, key, path) ==
  IF calls[t].root = INVALID_PAGE_ID
  THEN MutatorReturns(t, Insert(CtxTree(t), key, RID(key)).pg,
                      Insert(CtxTree(t), key, RID(key)).root, "true")
  ELSE /\ \A id \in Range(path) : CanFetch(t, id, PageFetch("Insert"))
       /\ IF DuplicateCheck(pages[Back(path)], key)
          THEN MutatorReturns(t, pages, root_page_id_, "false")
          ELSE IF pages[Back(path)].size # pages[Back(path)].max
          THEN MutatorAtMid(t, pages, path, Back(path), INVALID_PAGE_ID)
          ELSE MutatorAtMid(t, SplitLeaf(pages, Back(path), NewPageId(pages), leaf_max_size_),
                            path,
                            SplitTarget(key, LeafTmpKey(pages[Back(path)]), Back(path),
                                        NewPageId(pages)),
                            NewPageId(pages))

\* Remove from the empty-tree test to the delete of the key in the leaf
RemoveEdit(t, key, path) ==
  IF calls[t].root = INVALID_PAGE_ID
  THEN MutatorReturns(t, pages, root_page_id_, "void")
  ELSE /\ \A id \in Range(path) : CanFetch(t, id, PageFetch("Remove"))
       /\ MutatorAtMid(t, [pages EXCEPT ![Back(path)] = DeleteKey(@, 0, key)],
                       path, Back(path), INVALID_PAGE_ID)

\* step1 of Insert and Remove and their first edit
MutatorEdit(t) ==
  /\ calls[t].pc = "header"
  /\ calls[t].op \in {"Insert", "Remove"}
  /\ IF calls[t].op = "Insert"
     THEN InsertEdit(t, calls[t].key,
                     IF calls[t].root = INVALID_PAGE_ID THEN <<>>
                     ELSE Descend(pages, calls[t].root, calls[t].key))
     ELSE RemoveEdit(t, calls[t].key,
                     IF calls[t].root = INVALID_PAGE_ID THEN <<>>
                     ELSE Descend(pages, calls[t].root, calls[t].key))
  /\ UNCHANGED serial
  /\ UNCHANGED <<seq_vars, trie_vars>>

\* the rest of Insert: split up, ROOT_SPLIT, INSERTION_END
InsertRest(t, key, path, page_id) ==
  IF page_id = INVALID_PAGE_ID
  THEN InsertionEnd(CtxTree(t), Back(path), key, RID(key))
  ELSE InsertionEnd(Propagate(CtxTree(t), PopBack(path), pages[page_id].K[0], page_id),
                    SplitTarget(key, pages[page_id].K[0], Back(path), page_id),
                    key, RID(key))

\* the rest of Remove: steal or merge, up to the root
RemoveRest(t, key, path) ==
  AfterDelete(pages, calls[t].root, Back(path), PopBack(path),
              PositionSet(pages, path, key), key)

\* a Remove that asks for a latch it holds itself stays in the tree for ever
MutatorStuck(t, pg, root) ==
  /\ Publish(pg, root, [calls EXCEPT ![t].pc = "hung"])
  /\ UNCHANGED kv

\* the end of the call of thread t, whose run is r
MutatorEnds(t, r) ==
  IF calls[t].op = "Insert" THEN MutatorReturns(t, r.pg, r.root, "true")
  ELSE IF r.blocked THEN MutatorStuck(t, r.pg, r.root)
  ELSE MutatorReturns(t, r.pg, r.root, "void")

\* the edits after the first one, and the return
MutatorFinish(t) ==
  /\ calls[t].pc = "mid"
  /\ MutatorEnds(t, IF calls[t].op = "Insert"
                    THEN InsertRest(t, calls[t].key,
                                    Descend(pages, calls[t].root, calls[t].key), calls[t].at)
                    ELSE RemoveRest(t, calls[t].key,
                                    Descend(pages, calls[t].root, calls[t].key)))
  /\ UNCHANGED serial
  /\ UNCHANGED <<seq_vars, trie_vars>>

\* GetValue is called: the header page is fetched.  stable: the key is live
\* and no Insert or Remove of it is in flight
GetValueBegin(t, key) ==
  /\ calls[t].pc = "idle"
  /\ calls[t].ret = "none"
  /\ CanFetch(t, HEADER_PAGE_ID, HeaderFetch("GetValue"))
  /\ calls' = [calls EXCEPT ![t] =
                 [op |-> "GetValue", key |-> key, pc |-> "page", root |-> INVALID_PAGE_ID,
                  at |-> HEADER_PAGE_ID,
                  stable |-> (kv[key] # NoValue /\ NoMutatorOn(key)),
                  ret |-> "none",
                  guards |-> {Guard("guard", HEADER_PAGE_ID, HeaderFetch("GetValue"))}]]
  /\ UNCHANGED <<pages, root_page_id_, kv, serial>>
  /\ UNCHANGED <<seq_vars, trie_vars>>

\* what is kept of a finished lookup: "missed" is a false for a stable key
Reported(found, stable) ==
  IF ~found /\ stable THEN "missed" ELSE "none"

\* GetValue returns
GetValueReturns(t, found) ==
  Publish(pages, root_page_id_,
          [calls EXCEPT ![t] = Returned(@, Reported(found, @.stable))])

\* GetValue moves its guard to page id
GetValueMoves(t, id) ==
  /\ CanFetch(t, id, PageFetch("GetValue"))
  /\ Publish(pages, root_page_id_,
             [calls EXCEPT ![t] =
                [@ EXCEPT !.at = id, !.guards = {Guard("guard", id, PageFetch("GetValue"))}]])

\* GetValue reads the page its guard is on
GetValueStep(t) ==
  /\ calls[t].op = "GetValue"
  /\ calls[t].pc = "page"
  /\ IF calls[t].at = HEADER_PAGE_ID
     THEN IF root_page_id_ = INVALID_PAGE_ID
          THEN GetValueReturns(t, FALSE)
          ELSE GetValueMoves(t, root_page_id_)
     ELSE IF pages[calls[t].at].leaf
          THEN GetValueReturns(t, LeafFind(pages[calls[t].at], calls[t].key) >= 0)
          ELSE GetValueMoves(t, pages[calls[t].at].V[ChildSlot(pages[calls[t].at],
                                                               calls[t].key)])
  /\ UNCHANGED <<kv, serial>>
  /\ UNCHANGED <<seq_vars, trie_vars>>

\* IsEmpty or GetRootPageId are called: the header page is fetched
ObserverBegin(t, op) ==
  /\ calls[t].pc = "idle"
  /\ calls[t].ret = "none"
  /\ CanFetch(t, HEADER_PAGE_ID, HeaderFetch(op))
  /\ calls' = [calls EXCEPT ![t] =
                 [op |-> op, key |-> 0, pc |-> "header", root |-> INVALID_PAGE_ID,
                  at |-> INVALID_PAGE_ID, stable |-> FALSE, ret |-> "none",
                  guards |-> {Guard("guard", HEADER_PAGE_ID, HeaderFetch(op))}]]
  /\ UNCHANGED <<pages, root_page_id_, kv, serial>>
  /\ UNCHANGED <<seq_vars, trie_vars>>

\* IsEmpty fetches the root page, if there is one, and returns;
\* GetRootPageId returns
ObserverReturn(t) ==
  /\ calls[t].pc = "header"
  /\ calls[t].op \in {"IsEmpty", "GetRootPageId"}
  /\ (calls[t].op = "IsEmpty" /\ root_page_id_ # INVALID_PAGE_ID)
       => CanFetch(t, root_page_id_, PageFetch("IsEmpty"))
  /\ calls' = [calls EXCEPT ![t] = Returned(@, "none")]
  /\ UNCHANGED <<pages, root_page_id_, kv, serial>>
  /\ UNCHANGED <<seq_vars, trie_vars>>

ConcInit ==
  /\ Init
  /\ <<leaf_max_size_, internal_max_size_>> \in ConcConfigs

ConcNext ==
  \/ \E t \in Threads : \E op \in {"Insert", "Remove"} : \E key \in ConcKeys :
       MutatorBegin(t, op, key)
  \/ \E t \in Threads : MutatorEdit(t)
  \/ \E t \in Threads : MutatorFinish(t)
  \/ \E t \in Threads : \E key \in ConcKeys : GetValueBegin(t, key)
  \/ \E t \in Threads : GetValueStep(t)
  \/ \E t \in Threads : \E op \in {"IsEmpty", "GetRootPageId"} : ObserverBegin(t, op)
  \/ \E t \in Threads : ObserverReturn(t)

SpecConc == ConcInit /\ [][ConcNext]_vars

\* the BUSTUB_ASSERTs that Remove(key) trips in this state
AssertsOfRemove(key) == Remove(Tree, key).asserts

\* --------------------------------------------------------------- iterator
RECURSIVE Leftmost(_, _)
Leftmost(pg, id) == IF pg[id].leaf THEN id ELSE Leftmost(pg, pg[id].V[0])

\* Begin(): the page id of the leaf the iterator starts at
Begin(pg, root) ==
  IF root = INVALID_PAGE_ID THEN INVALID_PAGE_ID ELSE Leftmost(pg, root)

RECURSIVE Chain(_, _, _)
\* the leaf ids that operator++ walks through from leaf id, at most n of them
Chain(pg, id, n) ==
  IF id = INVALID_PAGE_ID \/ n = 0 THEN <<>>
  ELSE <<id>> \o Chain(pg, pg[id].next, n - 1)

\* ----------------------------------------------------------------- the trie
\* a move constructor that leaves the children behind
NoChildrenMoved(other_trie_node) == <<>>

\* what the move constructor takes over from the old node
MovedChildren(other_trie_node) == other_trie_node.children_

\* TrieNode(TrieNode &&): key char and children of the old node; is_end_ is
\* that of a new node
TrieNodeMove(other_trie_node) ==
  [TrieNode(other_trie_node.key_) EXCEPT !.children_ = MovedChildren(other_trie_node)]

\* a TrieNodeWithValue whose constructor leaves is_end_ as TrieNode set it
EndNotSet == FALSE

\* is_end_ of a TrieNodeWithValue
EndOfValueNode == TRUE

\* TrieNodeWithValue<T>(TrieNode &&, value)
TrieNodeWithValueMove(T, trieNode, value) ==
  [TrieNodeMove(trieNode) EXCEPT !.type_ = T, !.value_ = value,
                                 !.is_end_ = EndOfValueNode]

\* TrieNodeWithValue<T>(key_char, value)
TrieNodeWithValue(T, key_char, value) ==
  [TrieNode(key_char) EXCEPT !.type_ = T, !.value_ = value, !.is_end_ = EndOfValueNode]

\* a node that never tells it is an end node
NeverEndNode(node) == FALSE

IsEndNode(node) == node.is_end_

HasChild(node, key_char) == key_char \in DOMAIN node.children_

HasChildren(node) == DOMAIN node.children_ # {}

\* InsertChildNode: nothing is inserted if the child's key char differs or
\* the key char is taken
InsertChildNode(node, key_char, child) ==
  IF child.key_ # key_char \/ HasChild(node, key_char) THEN node
  ELSE [node EXCEPT !.children_ =
          [c \in DOMAIN node.children_ \cup {key_char} |->
             IF c = key_char THEN child ELSE node.children_[c]]]

RemoveChildNode(node, key_char) ==
  [node EXCEPT !.children_ = [c \in DOMAIN node.children_ \ {key_char} |->
                                node.children_[c]]]

\* std::unique_ptr<TrieNode> tmp(std::move(*node)): the pointer changes
\* hands, the node it points to is the same object
UniquePtrMove(node) == node

RECURSIVE InsertFrom(_, _, _, _)
\* the loop of Insert<T> from node t on, for the rest key of the key
InsertFrom(T, t, key, value) ==
  IF ~HasChild(t, Head(key))
  THEN IF Len(key) # 1
       THEN [node |-> InsertChildNode(t, Head(key),
                        InsertFrom(T, TrieNode(Head(key)), Tail(key), value).node),
             ret |-> TRUE]
       ELSE [node |-> InsertChildNode(t, Head(key),
                                      TrieNodeWithValue(T, Head(key), value)),
             ret |-> TRUE]
  ELSE IF Len(key) = 1
  THEN IF IsEndNode(t.children_[Head(key)])
       THEN [node |-> t, ret |-> FALSE]
       ELSE [node |-> InsertChildNode(RemoveChildNode(t, Head(key)), Head(key),
                        TrieNodeWithValueMove(T, t.children_[Head(key)], value)),
             ret |-> TRUE]
  ELSE [node |-> [t EXCEPT !.children_[Head(key)] = InsertFrom(T, @, Tail(key), value).node],
        ret |-> InsertFrom(T, t.children_[Head(key)], Tail(key), value).ret]

\* Trie::Insert<T>(key, value)
TrieInsert(T, root, key, value) ==
  IF key = <<>> THEN [node |-> root, ret |-> FALSE]
  ELSE InsertFrom(T, root, key, value)

\* the end of RemoveHelper: the child on the path goes if it is no end node
\* and has no children
Prune(root, key_char) ==
  IF /\ HasChild(root, key_char)
     /\ ~IsEndNode(root.children_[key_char])
     /\ ~HasChildren(root.children_[key_char])
  THEN RemoveChildNode(root, key_char)
  ELSE root

RECURSIVE RemoveHelper(_, _)
\* RemoveHelper(root, key, i); key here is the key from position i on
RemoveHelper(root, key) ==
  IF ~HasChild(root, Head(key)) THEN [node |-> root, ret |-> FALSE]
  ELSE IF Len(key) # 1
  THEN [node |-> Prune([root EXCEPT !.children_[Head(key)] =
                          RemoveHelper(@, Tail(key)).node], Head(key)),
        ret |-> RemoveHelper(root.children_[Head(key)], Tail(key)).ret]
  ELSE IF IsEndNode(root.children_[Head(key)])
  THEN [node |-> IF HasChildren(root.children_[Head(key)])
                 THEN InsertChildNode(RemoveChildNode(root, Head(key)), Head(key),
                                      UniquePtrMove(root.children_[Head(key)]))
                 ELSE RemoveChildNode(root, Head(key)),
        ret |-> TRUE]
  ELSE [node |-> root, ret |-> FALSE]

\* Trie::Remove(key); key.at(0) of the empty key throws std::out_of_range
TrieRemove(root, key) ==
  IF key = <<>> THEN [node |-> root, ret |-> FALSE, threw |-> TRUE]
  ELSE [node |-> RemoveHelper(root, key).node, ret |-> RemoveHelper(root, key).ret,
        threw |-> FALSE]

RECURSIVE Walk(_, _)
\* the loop of GetValue: the node at the end of key, if the path exists
Walk(t, key) ==
  IF key = <<>> THEN [found |-> TRUE, node |-> t]
  ELSE IF ~HasChild(t, Head(key)) THEN [found |-> FALSE, node |-> t]
  ELSE Walk(t.children_[Head(key)], Tail(key))

\* a GetValue that takes the value of any end node, whatever its type
ValueAtAnyType(T, w) ==
  IF ~w.found \/ ~w.node.is_end_
  THEN [success |-> FALSE, value |-> NoValue]
  ELSE [success |-> TRUE, value |-> w.node.value_]

\* what GetValue<T> makes of the end of its walk w: the node has to be an
\* end node and a TrieNodeWithValue<T> (dynamic_cast)
ValueAt(T, w) ==
  IF ~w.found \/ ~IsEndNode(w.node) \/ w.node.type_ # T
  THEN [success |-> FALSE, value |-> NoValue]
  ELSE [success |-> TRUE, value |-> w.node.value_]

\* Trie::GetValue<T>(key, success)
TrieGetValue(T, root, key) ==
  IF key = <<>> THEN [success |-> FALSE, value |-> NoValue]
  ELSE ValueAt(T, Walk(root, key))

\* the call Insert<T>(key, value) on the trie
TrieInsertCall(T, key, value) ==
  /\ root_' = TrieInsert(T, root_, key, value).node
  /\ stored' = IF TrieInsert(T, root_, key, value).ret
               THEN [stored EXCEPT ![key] = [type |-> T, value |-> value]] ELSE stored
  /\ ever' = IF TrieInsert(T, root_, key, value).ret THEN ever \cup {key} ELSE ever
  /\ UNCHANGED got
  /\ UNCHANGED tconc_vars
  /\ UNCHANGED bpt_vars

\* the call Remove(key) on the trie
TrieRemoveCall(key) ==
  /\ root_' = TrieRemove(root_, key).node
  /\ stored' = IF TrieRemove(root_, key).ret
               THEN [stored EXCEPT ![key] = NotStored] ELSE stored
  /\ UNCHANGED <<ever, got>>
  /\ UNCHANGED tconc_vars
  /\ UNCHANGED bpt_vars

\* the call GetValue<T>(key, &success) on the trie: it reads nodes only
TrieGetValueCall(T, key) ==
  /\ got' = TrieGetValue(T, root_, key)
  /\ UNCHANGED <<root_, stored, ever>>
  /\ UNCHANGED tconc_vars
  /\ UNCHANGED bpt_vars

TrieInit ==
  /\ Init
  /\ <<leaf_max_size_, internal_max_size_>> \in ConcConfigs

TrieNext ==
  \/ \E T \in TrieTypes : \E key \in TrieKeys : \E value \in TrieValues :
       TrieInsertCall(T, key, value)
  \/ \E key \in TrieKeys : TrieRemoveCall(key)
  \/ \E T \in TrieTypes : \E key \in TrieKeys : TrieGetValueCall(T, key)

SpecTrie == TrieInit /\ [][TrieNext]_vars

\* ------------------------------------------- trie calls from several threads
\* the keys, types and values of the concurrent trie calls
ConcTrieKeys == {<<>>, <<"a">>, <<"a", "b">>, <<"a", "b", "c">>}
ConcTrieTypes == {"int"}
ConcTrieValues == {1}

\* ReaderWriterLatch: WLock waits until nobody holds the latch, RLock until
\* no writer holds it
CanWLock == latch_.w = "none" /\ latch_.r = {}
CanRLock == latch_.w = "none"

\* the node at the end of path; path exists in the trie below t
RECURSIVE NodeAt(_, _)
NodeAt(t, path) ==
  IF path = <<>> THEN t ELSE NodeAt(t.children_[Head(path)], Tail(path))

\* the trie below t with the node at the end of path replaced by node
RECURSIVE ReplaceAt(_, _, _)
ReplaceAt(t, path, node) ==
  IF path = <<>> THEN node
  ELSE [t EXCEPT !.children_[Head(path)] = ReplaceAt(@, Tail(path), node)]

RECURSIVE PathsBelow(_, _)
\* the children_ map entries of the trie below node, each named by its path
PathsBelow(node, path) ==
  UNION {{Append(path, c)} \cup PathsBelow(node.children_[c], Append(path, c)) :
           c \in DOMAIN node.children_}

\* one pass of the loop of Insert<T> at node t for character key_char
InsertIteration(T, t, key_char, is_last, value) ==
  IF ~HasChild(t, key_char)
  THEN InsertChildNode(t, key_char,
                       IF is_last THEN TrieNodeWithValue(T, key_char, value)
                       ELSE TrieNode(key_char))
  ELSE IF is_last /\ ~IsEndNode(t.children_[key_char])
  THEN InsertChildNode(RemoveChildNode(t, key_char), key_char,
                       TrieNodeWithValueMove(T, t.children_[key_char], value))
  ELSE t

\* the pass returns false: the key ends at an end node
ReturnsFalse(t, key_char, is_last) ==
  HasChild(t, key_char) /\ is_last /\ IsEndNode(t.children_[key_char])

\* the pass erases the map entry of key_char and inserts a new one
Replaces(t, key_char, is_last) ==
  HasChild(t, key_char) /\ is_last /\ ~IsEndNode(t.children_[key_char])

\* the map entries that Remove(key) erases on the way from root to new_root:
\* those of the nodes that are gone, and that of an end node at key, which is
\* erased also when the node is inserted again
ErasedByRemove(root, key) ==
  (PathsBelow(root, <<>>) \ PathsBelow(RemoveHelper(root, key).node, <<>>))
    \cup (IF RemoveHelper(root, key).ret THEN {key} ELSE {})

\* the calls cs of the other threads after thread t has erased the map
\* entries erased: `t` of an Insert between two passes points to the entry of
\* the first i characters of its key, and dangles if that entry is erased
Invalidate(cs, t, erased) ==
  [u \in Threads |->
     IF u # t /\ cs[u].op = "Insert" /\ cs[u].i >= 1
          /\ SubSeq(cs[u].key, 1, cs[u].i) \in erased
     THEN [cs[u] EXCEPT !.valid = FALSE] ELSE cs[u]]

\* Insert<T>(key, value) is called with a key that is not empty: t = &root_
TrieInsertBegin(t, T, key, value) ==
  /\ tcalls[t].pc = "idle"
  /\ key # <<>>
  /\ tcalls' = [tcalls EXCEPT ![t] = [op |-> "Insert", T |-> T, key |-> key,
                                      value |-> value, pc |-> "loop", i |-> 0,
                                      valid |-> TRUE]]
  /\ UNCHANGED <<root_, stored, ever, got, latch_>>
  /\ UNCHANGED bpt_vars

\* latch_.WLock() at the head of a pass
TrieInsertWLock(t) ==
  /\ tcalls[t].op = "Insert"
  /\ tcalls[t].pc = "loop"
  /\ CanWLock
  /\ latch_' = [latch_ EXCEPT !.w = t]
  /\ tcalls' = [tcalls EXCEPT ![t].pc = "locked"]
  /\ UNCHANGED <<root_, stored, ever, got>>
  /\ UNCHANGED bpt_vars

\* the pass of call c at node `t` (the node at the end of path), and
\* latch_.WUnlock(); after the last pass Insert returns
TriePass(t, c, path, key_char, is_last) ==
  IF ReturnsFalse(NodeAt(root_, path), key_char, is_last)
  THEN /\ tcalls' = [tcalls EXCEPT ![t] = TrieIdle]
       /\ UNCHANGED <<root_, stored, ever>>
  ELSE /\ root_' = ReplaceAt(root_, path,
                             InsertIteration(c.T, NodeAt(root_, path), key_char,
                                             is_last, c.value))
       /\ tcalls' = Invalidate([tcalls EXCEPT ![t] =
                                  IF is_last THEN TrieIdle
                                  ELSE [c EXCEPT !.pc = "loop", !.i = c.i + 1]],
                               t,
                               IF Replaces(NodeAt(root_, path), key_char, is_last)
                               THEN {Append(path, key_char)} ELSE {})
       /\ stored' = IF is_last
                    THEN [stored EXCEPT ![c.key] = [type |-> c.T, value |-> c.value]]
                    ELSE stored
       /\ ever' = IF is_last THEN ever \cup {c.key} ELSE ever

\* a pass through a dangling `t`: the map entry it points to was erased by
\* another thread.  The behaviour is undefined: the call crashes with the
\* latch held, or it writes to freed memory and goes on, the trie untouched
TrieDanglingPass(t, c, is_last) ==
  /\ UNCHANGED <<root_, stored, ever>>
  /\ \/ /\ tcalls' = [tcalls EXCEPT ![t].pc = "crashed"]
        /\ UNCHANGED latch_
     \/ /\ tcalls' = [tcalls EXCEPT ![t] =
                        IF is_last THEN TrieIdle
                        ELSE [c EXCEPT !.pc = "loop", !.i = c.i + 1]]
        /\ latch_' = [latch_ EXCEPT !.w = "none"]

\* one pass of the loop of Insert, from GetChildNode to WUnlock
TrieInsertPass(t) ==
  /\ tcalls[t].op = "Insert"
  /\ tcalls[t].pc = "locked"
  /\ IF tcalls[t].valid
     THEN /\ TriePass(t, tcalls[t], SubSeq(tcalls[t].key, 1, tcalls[t].i),
                      tcalls[t].key[tcalls[t].i + 1],
                      tcalls[t].i + 1 = Len(tcalls[t].key))
          /\ latch_' = [latch_ EXCEPT !.w = "none"]
     ELSE TrieDanglingPass(t, tcalls[t], tcalls[t].i + 1 = Len(tcalls[t].key))
  /\ UNCHANGED got
  /\ UNCHANGED bpt_vars

\* Remove(key) is called: latch_.WLock()
TrieRemoveWLock(t, key) ==
  /\ tcalls[t].pc = "idle"
  /\ CanWLock
  /\ latch_' = [latch_ EXCEPT !.w = t]
  /\ tcalls' = [tcalls EXCEPT ![t] = [TrieIdle EXCEPT !.op = "Remove", !.key = key,
                                                      !.pc = "locked"]]
  /\ UNCHANGED <<root_, stored, ever, got>>
  /\ UNCHANGED bpt_vars

\* RemoveHelper(&root_, key, 0), latch_.WUnlock() and the return; key.at(0)
\* of the empty key throws out of Remove before the WUnlock
TrieRemoveRun(t) ==
  /\ tcalls[t].op = "Remove"
  /\ tcalls[t].pc = "locked"
  /\ IF TrieRemove(root_, tcalls[t].key).threw
     THEN /\ tcalls' = [tcalls EXCEPT ![t].pc = "threw"]
          /\ UNCHANGED <<root_, stored, latch_>>
     ELSE /\ root_' = TrieRemove(root_, tcalls[t].key).node
          /\ stored' = IF TrieRemove(root_, tcalls[t].key).ret
                       THEN [stored EXCEPT ![tcalls[t].key] = NotStored] ELSE stored
          /\ tcalls' = Invalidate([tcalls EXCEPT ![t] = TrieIdle], t,
                                  ErasedByRemove(root_, tcalls[t].key))
          /\ latch_' = [latch_ EXCEPT !.w = "none"]
  /\ UNCHANGED <<ever, got>>
  /\ UNCHANGED bpt_vars

\* GetValue<T>(key) is called with a key that is not empty: latch_.RLock()
TrieGetValueRLock(t, T, key) ==
  /\ tcalls[t].pc = "idle"
  /\ key # <<>>
  /\ CanRLock
  /\ latch_' = [latch_ EXCEPT !.r = @ \cup {t}]
  /\ tcalls' = [tcalls EXCEPT ![t] = [TrieIdle EXCEPT !.op = "GetValue", !.T = T,
                                                      !.key = key, !.pc = "reading"]]
  /\ UNCHANGED <<root_, stored, ever, got>>
  /\ UNCHANGED bpt_vars

\* the walk of GetValue, latch_.RUnlock() and the return
TrieGetValueWalk(t) ==
  /\ tcalls[t].op = "GetValue"
  /\ tcalls[t].pc = "reading"
  /\ got' = TrieGetValue(tcalls[t].T, root_, tcalls[t].key)
  /\ latch_' = [latch_ EXCEPT !.r = @ \ {t}]
  /\ tcalls' = [tcalls EXCEPT ![t] = TrieIdle]
  /\ UNCHANGED <<root_, stored, ever>>
  /\ UNCHANGED bpt_vars

TrieConcNext ==
  \/ \E t \in Threads : \E T \in ConcTrieTypes : \E key \in ConcTrieKeys :
       \E value \in ConcTrieValues : TrieInsertBegin(t, T, key, value)
  \/ \E t \in Threads : TrieInsertWLock(t)
  \/ \E t \in Threads : TrieInsertPass(t)
  \/ \E t \in Threads : \E key \in ConcTrieKeys : TrieRemoveWLock(t, key)
  \/ \E t \in Threads : TrieRemoveRun(t)
  \/ \E t \in Threads : \E T \in ConcTrieTypes : \E key \in ConcTrieKeys :
       TrieGetValueRLock(t, T, key)
  \/ \E t \in Threads : TrieGetValueWalk(t)

SpecTrieConc == TrieInit /\ [][TrieConcNext]_vars

\* ------------------------------------------------------- tree observations
RECURSIVE LeavesBelow(_, _)
\* the leaves below page id, left to right, one entry per child pointer path
LeavesBelow(pg, id) ==
  IF pg[id].leaf THEN <<id>>
  ELSE LET p == pg[id]
           F[i \in 0..p.size] ==
             IF i = 0 THEN <<>> ELSE F[i - 1] \o LeavesBelow(pg, p.V[i - 1])
       IN F[p.size]

RECURSIVE LeafDepths(_, _)
\* the depths, counted from page id, at which leaves are found below it
LeafDepths(pg, id) ==
  IF pg[id].leaf THEN {0}
  ELSE UNION {{d + 1 : d \in LeafDepths(pg, pg[id].V[i])} : i \in 0..(pg[id].size - 1)}

RECURSIVE KeysBelow(_, _)
\* the keys stored in the leaves below page id
KeysBelow(pg, id) ==
  IF pg[id].leaf THEN {pg[id].K[i] : i \in 0..(pg[id].size - 1)}
  ELSE UNION {KeysBelow(pg, pg[id].V[i]) : i \in 0..(pg[id].size - 1)}

RECURSIVE Flatten(_, _)
\* the (key, value) pairs of the leaves of chain, concatenated
Flatten(pg, chain) ==
  IF chain = <<>> THEN <<>>
  ELSE LET p == pg[chain[1]]
       IN [i \in 1..p.size |-> <<p.K[i - 1], p.V[i - 1]>>] \o Flatten(pg, Tail(chain))

InternalIds(pg) == {id \in DOMAIN pg : ~pg[id].leaf}

\* a public-operation boundary: no call is stuck inside the tree
Boundary == ~hung

\* the (key, value) pairs inserted and not removed since
KvPairs == {<<k, kv[k]>> : k \in {x \in Keys : kv[x] # NoValue}}
\* the leaves the iterator walks through from Begin()
TreeChain == Chain(pages, Begin(pages, root_page_id_), Cardinality(DOMAIN pages) + 1)
\* the leaves of the tree, left to right
TreeLeaves ==
  IF root_page_id_ = INVALID_PAGE_ID THEN <<>> ELSE LeavesBelow(pages, root_page_id_)
\* what the iterator yields
Flat == Flatten(pages, TreeChain)
\* the tree a call leaves behind, as the next call finds it
After(r) == [Tree EXCEPT !.pg = r.pg, !.root = r.root]
\* the height of the tree: 0 for an empty tree, 1 for a root leaf
Heights ==
  IF root_page_id_ = INVALID_PAGE_ID THEN {0}
  ELSE {d + 1 : d \in LeafDepths(pages, root_page_id_)}

RECURSIVE Shape(_, _)
\* the tree below page id without its page ids: keys, values and children
Shape(pg, id) ==
  IF id = INVALID_PAGE_ID THEN <<>>
  ELSE IF pg[id].leaf THEN [leaf |-> TRUE, K |-> pg[id].K, V |-> pg[id].V]
  ELSE [leaf |-> FALSE, K |-> pg[id].K,
        C |-> [i \in 0..(pg[id].size - 1) |-> Shape(pg, pg[id].V[i])]]

\* what the iterator yields from tree [pg, root]
Scan(pg, root) == Flatten(pg, Chain(pg, Begin(pg, root), Cardinality(DOMAIN pg) + 1))

\* thread t is inside Insert or Remove
InMutator(t) == calls[t].op \in {"Insert", "Remove"} /\ calls[t].pc # "idle"
\* thread t holds the write guard of page id
HoldsWrite(t, id) == \E g \in calls[t].guards : g[2] = id /\ g[3] = "W"

\* ------------------------------------------------------------------ claims
\* C1: in every reachable tree state and for every key k that the tree does
\* not hold (a lookup of k finds nothing), Insert(k, v) returns true and a
\* GetValue(k) right after it returns true with the result vector <<v>>.
C1_InsertThenGet ==
  Boundary =>
    \A k \in KeyRange : \A v \in {RID(k), AltRid(k)} :
      ~GetValue(pages, root_page_id_, k)[1] =>
        LET r == Insert(Tree, k, v)
        IN r.ret /\ GetValue(r.pg, r.root, k) = <<TRUE, <<v>> >>

\* an Insert of a new key has returned true in a tree of height 3 that a
\* Remove has worked on, and the lookup yields the inserted value
C1_Witness ==
  /\ last.op = "Insert" /\ last.ret = "true" /\ removes > 0
  /\ Heights = {3}
  /\ GetValue(pages, root_page_id_, last.key) = <<TRUE, <<kv[last.key]>> >>

\* C2: after Remove(k) returns, GetValue(k) returns false, whether or not k
\* was present, and a second Remove(k) changes no page.
C2_RemoveThenAbsent ==
  Boundary =>
    \A k \in KeyRange :
      LET r == Remove(Tree, k)
      IN ~r.blocked =>
           /\ ~GetValue(r.pg, r.root, k)[1]
           /\ LET r2 == Remove(After(r), k)
              IN ~r2.blocked /\ r2.pg = r.pg /\ r2.root = r.root

\* C3: an Insert or a Remove of key k changes the lookup result of no other
\* key: found flag and value of every k2 # k are the same before and after.
C3_OtherKeysKept ==
  Boundary =>
    \A k \in KeyRange : \A k2 \in KeyRange \ {k} :
      /\ LET r == Insert(Tree, k, RID(k))
         IN GetValue(r.pg, r.root, k2) = GetValue(pages, root_page_id_, k2)
      /\ LET r == Remove(Tree, k)
         IN ~r.blocked =>
              GetValue(r.pg, r.root, k2) = GetValue(pages, root_page_id_, k2)

\* C4: Insert(k, v2) of a key k that is present (a lookup finds it) returns
\* false and changes nothing: the root id and every page stay as they are,
\* also when the target leaf is full, and GetValue(k) returns what it did.
C4_DuplicateInsert ==
  Boundary =>
    \A k \in KeyRange : \A v \in {RID(k), AltRid(k)} :
      GetValue(pages, root_page_id_, k)[1] =>
        LET r == Insert(Tree, k, v)
        IN /\ ~r.ret
           /\ r.pg = pages /\ r.root = root_page_id_
           /\ GetValue(r.pg, r.root, k) = GetValue(pages, root_page_id_, k)

\* an Insert of a present key has returned false at a full leaf, and the
\* key still has the value of its first Insert
C4_Witness ==
  /\ last.op = "Insert" /\ last.ret = "false"
  /\ LET path == Descend(pages, root_page_id_, last.key)
         leaf == pages[path[Len(path)]]
     IN leaf.size = leaf.max /\ Len(path) >= 2
  /\ GetValue(pages, root_page_id_, last.key) = <<TRUE, <<kv[last.key]>> >>

\* C5: Remove(k) of a key k that is not in the tree changes nothing: no page
\* and not the root id, for odd and even max sizes.
C5_RemoveAbsent ==
  Boundary =>
    \A k \in KeyRange :
      (root_page_id_ = INVALID_PAGE_ID \/ k \notin KeysBelow(pages, root_page_id_)) =>
        LET r == Remove(Tree, k)
        IN ~r.blocked /\ r.pg = pages /\ r.root = root_page_id_

\* C6: at every operation boundary the leaf chain from Begin() visits every
\* leaf of the tree once, in order, and ends at INVALID; the keys along it
\* are strictly increasing and the pairs are exactly the pairs inserted and
\* not removed.
C6_LeafChain ==
  Boundary =>
    /\ TreeChain = TreeLeaves
    /\ \A i \in 1..(Len(Flat) - 1) : Flat[i][1] < Flat[i + 1][1]
    /\ {Flat[i] : i \in 1..Len(Flat)} = KvPairs

\* C7: at every operation boundary every internal page routes correctly:
\* its keys at slots 1..size-1 are strictly increasing, every key below
\* child[i] is >= K[i] (i >= 1) and < K[i+1] (i+1 < size), and so the descent
\* for a key stored in the tree ends at the leaf that stores it.
C7_Routing ==
  Boundary =>
    /\ \A id \in InternalIds(pages) : \A i \in 1..(pages[id].size - 2) :
         pages[id].K[i] < pages[id].K[i + 1]
    /\ \A id \in InternalIds(pages) : \A i \in 0..(pages[id].size - 1) :
         \A k \in KeysBelow(pages, pages[id].V[i]) :
           /\ i >= 1 => k >= pages[id].K[i]
           /\ i + 1 < pages[id].size => k < pages[id].K[i + 1]
    /\ root_page_id_ # INVALID_PAGE_ID =>
         \A k \in KeysBelow(pages, root_page_id_) : GetValue(pages, root_page_id_, k)[1]

\* C8: at every operation boundary every page but the root has
\* min_size <= size <= max_size, with min_size = ceil(max_size / 2).
C8_Occupancy ==
  Boundary =>
    \A id \in DOMAIN pages \ {root_page_id_} :
      /\ GetMinSize(pages[id]) <= pages[id].size
      /\ pages[id].size <= pages[id].max

\* C9: at every operation boundary all leaves are at the same depth below
\* the root.
C9_SameDepth ==
  Boundary =>
    (root_page_id_ # INVALID_PAGE_ID =>
       Cardinality(LeafDepths(pages, root_page_id_)) = 1)

\* a Remove has returned and left a tree of height 3: the root was split
\* twice, and every leaf is two levels below it
C9_Witness ==
  /\ last.op = "Remove" /\ last.ret = "void"
  /\ Heights = {3}

\* C10: at every operation boundary, for every internal page and every slot
\* i >= 1, K[i] is the smallest key stored in the leaves below child[i].
C10_Separators ==
  Boundary =>
    \A id \in InternalIds(pages) : \A i \in 1..(pages[id].size - 1) :
      LET ks == KeysBelow(pages, pages[id].V[i])
      IN ks # {} /\ pages[id].K[i] \in ks /\ \A k \in ks : k >= pages[id].K[i]

\* C11: at every operation boundary IsEmpty() returns true if and only if
\* no key is live (inserted and not removed since).
C11_IsEmptyIffNoLiveKey ==
  Boundary => (IsEmpty(pages, root_page_id_) <=> KvPairs = {})

\* C12: when the keys 1..N have been inserted in some order and removed in
\* the reverse of it, every call has completed (none hangs or throws) and
\* the tree is as a fresh one: the header's root is INVALID, IsEmpty() is
\* true and Begin() is End().
C12_ReverseRemovalEmpties ==
  /\ Range(order) = 1..Len(order) => (~hung /\ last.ret # "threw")
  /\ (Range(order) = 1..Len(order) /\ removes = Len(order)) =>
       /\ root_page_id_ = INVALID_PAGE_ID
       /\ IsEmpty(pages, root_page_id_)
       /\ Begin(pages, root_page_id_) = INVALID_PAGE_ID

\* C13: every Insert and Remove call that holds the header write guard
\* returns (no call is stuck inside the tree), and no Remove call asks for a
\* latch on a page whose write guard it still holds.
C13_CallsReturn ==
  /\ ~hung
  /\ \A k \in KeyRange : ~Remove(Tree, k).blocked

\* C14: a thread inside Insert or Remove holds the header's write guard, so
\* no two threads are inside a mutator at the same time, and whenever no
\* mutator is in flight the tree is the one that the same calls leave when
\* run one at a time in the order in which they took the header guard.
C14_MutatorsSerialized ==
  /\ \A t \in Threads : InMutator(t) => HoldsWrite(t, HEADER_PAGE_ID)
  /\ \A t \in Threads : \A u \in Threads \ {t} : ~(InMutator(t) /\ InMutator(u))
  /\ (\A t \in Threads : ~InMutator(t)) =>
       /\ Shape(pages, root_page_id_) = Shape(serial.pg, serial.root)
       /\ Scan(pages, root_page_id_) = Scan(serial.pg, serial.root)

\* the mutators before have returned and left a full root leaf; one thread is
\* in the middle of the Insert that has split it, the other is in no call: it
\* cannot enter a mutator now
C14_Witness ==
  \E t \in Threads : \E u \in Threads \ {t} :
    /\ calls[t].pc = "idle"
    /\ calls[u].pc = "mid" /\ calls[u].op = "Insert" /\ calls[u].at # INVALID_PAGE_ID
    /\ pages[root_page_id_].leaf
    /\ ~CanFetch(t, HEADER_PAGE_ID, HeaderFetch("Remove"))

\* C15: a GetValue(k) of a key k that was inserted before the lookup began
\* and that no Insert or Remove call touches while it runs never returns
\* false ("missed").
C15_LookupNeverMisses ==
  \A t \in Threads : calls[t].ret # "missed"

\* C16: while GetValue has its guard on a page (the header, an internal page
\* or a leaf) and reads it, no other thread holds the write guard of that page.
C16_NoReadUnderWriteGuard ==
  \A t \in Threads :
    (calls[t].op = "GetValue" /\ calls[t].pc = "page") =>
      \A u \in Threads \ {t} : ~HoldsWrite(u, calls[t].at)

ProperPrefixes(key) == {SubSeq(key, 1, n) : n \in 0..(Len(key) - 1)}

\* C18: after a Trie Insert<T>(key, v) that returns true, GetValue<T>(key)
\* succeeds with v, and GetValue of every proper prefix of key that no Insert
\* has ever stored fails.
C18_TrieInsertThenGetValue ==
  \A T \in TrieTypes : \A key \in TrieKeys : \A value \in TrieValues :
    TrieInsert(T, root_, key, value).ret =>
      /\ TrieGetValue(T, TrieInsert(T, root_, key, value).node, key)
           = [success |-> TRUE, value |-> value]
      /\ \A p \in ProperPrefixes(key) \ ever : \A U \in TrieTypes :
           ~TrieGetValue(U, TrieInsert(T, root_, key, value).node, p).success

\* Insert("abc", v) has returned true and is the only Insert so far: "abc" is
\* found with v, "ab" and "a" are not
C18_Witness ==
  /\ ever = {<<"a", "b", "c">>}
  /\ stored[<<"a", "b", "c">>] # NotStored
  /\ TrieGetValue(stored[<<"a", "b", "c">>].type, root_, <<"a", "b", "c">>)
       = [success |-> TRUE, value |-> stored[<<"a", "b", "c">>].value]
  /\ \A U \in TrieTypes : ~TrieGetValue(U, root_, <<"a", "b">>).success

\* C19: a Trie Remove(key) returns true iff key is stored; after a Remove
\* that returned true, GetValue(key) fails, a second Remove(key) returns
\* false and an Insert(key, v2) returns true, also when a longer stored key
\* extends key.
C19_TrieRemoveIffStored ==
  \A key \in TrieKeys :
    /\ TrieRemove(root_, key).ret <=> (stored[key] # NotStored)
    /\ TrieRemove(root_, key).ret =>
         /\ \A T \in TrieTypes : ~TrieGetValue(T, TrieRemove(root_, key).node, key).success
         /\ ~TrieRemove(TrieRemove(root_, key).node, key).ret
         /\ \A T \in TrieTypes : \A v2 \in TrieValues :
              TrieInsert(T, TrieRemove(root_, key).node, key, v2).ret

\* C20: a Trie Insert(key, v) or Remove(key) leaves the result of GetValue
\* for every other key as it was, prefixes and extensions of key included.
C20_TrieOtherKeysKept ==
  \A key \in TrieKeys : \A k2 \in TrieKeys \ {key} : \A U \in TrieTypes :
    /\ \A T \in TrieTypes : \A value \in TrieValues :
         TrieGetValue(U, TrieInsert(T, root_, key, value).node, k2)
           = TrieGetValue(U, root_, k2)
    /\ TrieGetValue(U, TrieRemove(root_, key).node, k2) = TrieGetValue(U, root_, k2)

\* "a" and "abc" are stored, "ab" never was: Insert("ab", v) turns a node
\* with a child into a terminal, Remove("a") removes a terminal with a child
C20_Witness ==
  /\ stored[<<"a">>] # NotStored
  /\ stored[<<"a", "b", "c">>] # NotStored
  /\ <<"a", "b">> \notin ever
  /\ \A T \in TrieTypes : \A value \in TrieValues :
       TrieInsert(T, root_, <<"a", "b">>, value).ret
  /\ TrieRemove(root_, <<"a">>).ret

RECURSIVE NodesBelow(_, _)
\* the nodes below node, each with the characters that lead to it from the root
NodesBelow(node, path) ==
  {<<path, node>>} \cup
  UNION {NodesBelow(node.children_[c], Append(path, c)) : c \in DOMAIN node.children_}

\* key is stored as a terminal: the node at the end of key is an end node
StoredAsTerminal(key) ==
  \E n \in NodesBelow(root_, <<>>) : n[1] = key /\ n[1] # <<>> /\ n[2].is_end_

\* C21: a Trie Insert(key, v) returns false exactly when key is empty or key
\* is stored as a terminal, and then the trie is as it was: no node created or
\* replaced, no value overwritten.
C21_TrieInsertFalseIffStored ==
  \A T \in TrieTypes : \A key \in TrieKeys : \A value \in TrieValues :
    /\ ~TrieInsert(T, root_, key, value).ret <=> (key = <<>> \/ StoredAsTerminal(key))
    /\ ~TrieInsert(T, root_, key, value).ret => TrieInsert(T, root_, key, value).node = root_

\* "abc" is stored with some value below the stored key "ab": no
\* Insert("abc", v) of any type and value succeeds or changes a node
C21_Witness ==
  /\ stored[<<"a", "b", "c">>] # NotStored
  /\ stored[<<"a", "b">>] # NotStored
  /\ \A T \in TrieTypes : \A value \in TrieValues :
       /\ ~TrieInsert(T, root_, <<"a", "b", "c">>, value).ret
       /\ TrieInsert(T, root_, <<"a", "b", "c">>, value).node = root_

\* the terminals of the trie that hold a value of type T, with their keys
TerminalsOf(T) ==
  {n \in NodesBelow(root_, <<>>) : n[1] # <<>> /\ n[2].is_end_ /\ n[2].type_ = T}

\* GetValue<T>(key) answers g as the terminals of the trie require
AnswersFrom(g, T, key) ==
  IF \E n \in TerminalsOf(T) : n[1] = key
  THEN /\ g.success
       /\ \E n \in TerminalsOf(T) : n[1] = key /\ g.value = n[2].value_
  ELSE g = [success |-> FALSE, value |-> NoValue]

\* C22: GetValue<T>(key) fails with a default T exactly when key is empty, a
\* character of the path is missing, the node reached is no terminal or holds
\* a value of another type; otherwise it succeeds with the stored value.  A
\* GetValue call leaves the trie as it was.
C22_TrieGetValueAnswers ==
  /\ [](\A T \in TrieTypes : \A key \in TrieKeys :
          AnswersFrom(TrieGetValue(T, root_, key), T, key))
  /\ [][got' # got => root_' = root_]_vars

\* a GetValue("abc") has succeeded; since then the key was removed and "ab"
\* stored as an int: GetValue<std::string>("ab") fails on the type,
\* GetValue("a") on the node that is no terminal, GetValue("abc") on the path
C22_Witness ==
  /\ got.success
  /\ \A U \in TrieTypes : ~TrieGetValue(U, root_, <<"a", "b", "c">>).success
  /\ stored[<<"a", "b">>].type = "int"
  /\ TrieGetValue("int", root_, <<"a", "b">>).success
  /\ ~TrieGetValue("std::string", root_, <<"a", "b">>).success
  /\ \A U \in TrieTypes : ~TrieGetValue(U, root_, <<"a">>).success
  /\ stored[<<"a", "b">>].type = "int"
  /\ ~TrieGetValue("std::string", root_, <<"a", "b">>).success
  /\ TrieGetValue("int", root_, <<"a", "b">>).success
  /\ \A U \in TrieTypes : ~TrieGetValue(U, root_, <<"a">>).success

\* thread t is between the first node read and the last node edit of an
\* Insert or a Remove
InTrieEdit(t) ==
  \/ tcalls[t].op = "Remove" /\ tcalls[t].pc = "locked"
  \/ /\ tcalls[t].op = "Insert"
     /\ tcalls[t].pc = "locked" \/ (tcalls[t].pc = "loop" /\ tcalls[t].i >= 1)

\* C23: a Trie Insert or Remove holds the write latch all the way from its
\* first node read or edit to its last, and a GetValue the read latch for its
\* walk; hence while a thread is between the first and the last edit of its
\* call, no step of another thread changes the trie or returns a lookup.
C23_TrieEditsUnderOneLatch ==
  /\ [](\A t \in Threads :
          /\ InTrieEdit(t) => latch_.w = t
          /\ tcalls[t].pc = "reading" => t \in latch_.r)
  /\ [][\A t \in Threads :
          (InTrieEdit(t) /\ tcalls'[t].pc = tcalls[t].pc /\ tcalls'[t].i = tcalls[t].i)
            => (root_' = root_ /\ got' = got)]_vars

\* C24: a Trie Remove("") returns false, leaves the trie as it was and the
\* latch released: no call ends by an exception, and a thread whose call has
\* ended does not hold the latch.
C24_TrieRemoveEmptyKey ==
  \A t \in Threads :
    /\ tcalls[t].pc # "threw"
    /\ tcalls[t].pc \in {"idle", "threw"} => (latch_.w # t /\ t \notin latch_.r)

\* ------------------------------------------------ the steps of one removal
\* the (key, value) entries of page p, slot by slot
Entries(p) == [i \in 0..(p.size - 1) |-> <<p.K[i], p.V[i]>>]

\* Remove(key) up to and with delete key: the tree after it, the leaf, the
\* parent (INVALID_PAGE_ID for a root leaf) and the leaf's slot in the parent
Deleted(key) ==
  LET path == Descend(pages, root_page_id_, key)
      position_set == PositionSet(pages, path, key)
  IN [pg |-> [pages EXCEPT ![Back(path)] = DeleteKey(@, 0, key)],
      leaf_id |-> Back(path),
      root_id |-> IF Len(path) > 1 THEN path[Len(path) - 1] ELSE INVALID_PAGE_ID,
      leaf_position |-> IF Len(path) > 1 THEN Back(position_set) ELSE 0]

\* the delete of key leaves its leaf under-full below a parent
UnderFull(d) ==
  d.root_id # INVALID_PAGE_ID /\ d.pg[d.leaf_id].size < GetMinSize(d.pg[d.leaf_id])

\* the under-full leaf of d steals (rather than merges), and from prev
StealsFromPrev(d) ==
  /\ UnderFull(d)
  /\ LET sib == Siblings(d.pg[d.root_id], d.leaf_position)
     IN /\ BiggerSize(d.pg, sib) - 1 >= GetMinSize(d.pg[d.leaf_id])
        /\ StealFromPrev(d.pg, sib)

\* C25: when an under-full leaf N at parent slot p > 0 borrows from its left
\* sibling L, N afterwards holds L's former last entry followed by all of
\* N's former entries in order, L has lost exactly its last entry, and the
\* parent's K[p] is N's new first key, however many entries N had left.
C25_LeafBorrowFromLeft ==
  (Boundary /\ root_page_id_ # INVALID_PAGE_ID) =>
    \A k \in KeyRange :
      LET d == Deleted(k)
      IN StealsFromPrev(d) =>
           LET N == d.pg[d.leaf_id]
               L == d.pg[d.pg[d.root_id].V[d.leaf_position - 1]]
               r == Remove(Tree, k)
               N2 == r.pg[d.leaf_id]
               L2 == r.pg[d.pg[d.root_id].V[d.leaf_position - 1]]
           IN /\ N2.size = N.size + 1
              /\ Entries(N2) = [i \in 0..N.size |->
                                  IF i = 0 THEN Entries(L)[L.size - 1]
                                  ELSE Entries(N)[i - 1]]
              /\ L2.size = L.size - 1
              /\ Entries(L2) = [i \in 0..(L.size - 2) |-> Entries(L)[i]]
              /\ r.pg[d.root_id].K[d.leaf_position] = N2.K[0]

\* the adjacent siblings of the under-full leaf of d under its parent: the
\* pages one slot to the left and one slot to the right, where there are such
Adjacent(d) ==
  {d.pg[d.root_id].V[j] :
     j \in {d.leaf_position - 1, d.leaf_position + 1} \cap 0..(d.pg[d.root_id].size - 1)}

\* the larger of the adjacent siblings, the left one when they are equal
Donor(d) ==
  LET left == d.pg[d.root_id].V[d.leaf_position - 1]
      right == d.pg[d.root_id].V[d.leaf_position + 1]
  IN IF d.leaf_position = 0 THEN right
     ELSE IF d.leaf_position = d.pg[d.root_id].size - 1 THEN left
     ELSE IF d.pg[left].size >= d.pg[right].size THEN left ELSE right

\* page b holds the entries of page a followed by those of page c
Concat(b, a, c) ==
  /\ b.size = a.size + c.size
  /\ Entries(b) = [i \in 0..(a.size + c.size - 1) |->
                     IF i < a.size THEN Entries(a)[i] ELSE Entries(c)[i - a.size]]

\* C30: for an under-full leaf N the donor is the larger of N's adjacent
\* siblings under the same parent, the left one on equal size; N borrows
\* exactly one entry from the donor if and only if donor.size - 1 >= min_size
\* (N grows by one, the donor shrinks by one, no other sibling changes), and
\* otherwise N is merged with an adjacent sibling.
C30_BorrowOrMerge ==
  (Boundary /\ root_page_id_ # INVALID_PAGE_ID) =>
    \A k \in KeyRange :
      LET d == Deleted(k)
      IN UnderFull(d) =>
           LET N == d.pg[d.leaf_id]
               r == Remove(Tree, k)
               slot == d.leaf_position
               parent == d.pg[d.root_id]
           IN IF d.pg[Donor(d)].size - 1 >= GetMinSize(N)
              THEN /\ r.pg[d.leaf_id].size = N.size + 1
                   /\ r.pg[Donor(d)].size = d.pg[Donor(d)].size - 1
                   /\ \A s \in Adjacent(d) \ {Donor(d)} : r.pg[s] = d.pg[s]
              ELSE \/ /\ slot > 0
                      /\ Concat(r.pg[parent.V[slot - 1]], d.pg[parent.V[slot - 1]], N)
                   \/ /\ slot < parent.size - 1
                      /\ Concat(r.pg[d.leaf_id], N, d.pg[parent.V[slot + 1]])

\* the under-full leaf of d borrows: its donor can spare an entry
Borrows(d) ==
  UnderFull(d) /\ d.pg[Donor(d)].size - 1 >= GetMinSize(d.pg[d.leaf_id])

\* a Remove of some key leaves a leaf under-full between two siblings of equal
\* size that can spare an entry, and the leaf has borrowed from the left one
C30_Witness ==
  /\ Boundary /\ root_page_id_ # INVALID_PAGE_ID
  /\ \E k \in KeyRange :
       LET d == Deleted(k)
           left == d.pg[d.root_id].V[d.leaf_position - 1]
           right == d.pg[d.root_id].V[d.leaf_position + 1]
           r == Remove(Tree, k)
       IN /\ Borrows(d)
          /\ 0 < d.leaf_position /\ d.leaf_position < d.pg[d.root_id].size - 1
          /\ d.pg[left].size = d.pg[right].size
          /\ r.pg[left].size = d.pg[left].size - 1
          /\ r.pg[d.leaf_id].size = d.pg[d.leaf_id].size + 1
          /\ r.pg[right] = d.pg[right]

\* the under-full leaf of d is merged with a sibling below a parent that has
\* a parent itself
MergesBelowInner(d) ==
  UnderFull(d) /\ ~Borrows(d) /\ d.root_id # root_page_id_

\* the two leaves the merge of d works on
MergedLeaves(d) ==
  IF d.leaf_position # 0
  THEN {d.pg[d.root_id].V[d.leaf_position - 1], d.leaf_id}
  ELSE {d.leaf_id, d.pg[d.root_id].V[d.leaf_position + 1]}

\* C26: after a merge of two children has removed a separator from their
\* parent P, which is not the root, P is rebalanced only if P.size < min_size;
\* when P.size >= min_size the cascade stops: P has lost one entry, and no
\* page but P and the merged leaves is modified, nor the root id.
C26_CascadeStops ==
  (Boundary /\ root_page_id_ # INVALID_PAGE_ID) =>
    \A k \in KeyRange :
      LET d == Deleted(k)
      IN (MergesBelowInner(d)
          /\ pages[d.root_id].size - 1 >= GetMinSize(pages[d.root_id])) =>
           LET r == Remove(Tree, k)
           IN /\ r.root = root_page_id_
              /\ r.pg[d.root_id].size = pages[d.root_id].size - 1
              /\ \A id \in DOMAIN pages \ ({d.root_id} \cup MergedLeaves(d)) :
                   r.pg[id] = pages[id]

\* ------------------------------------------------- the steps of one insert
\* the n entries of page p from slot lo on
EntriesFrom(p, lo, n) == [i \in 0..(n - 1) |-> <<p.K[lo + i], p.V[lo + i]>>]

\* res is the n entries e with (key, value) in sorted position among them
SortedInto(res, e, n, key, value) ==
  \E pos \in 0..n :
    /\ res = [i \in 0..n |-> IF i < pos THEN e[i] ELSE IF i = pos THEN <<key, value>>
                                                        ELSE e[i - 1]]
    /\ \A i \in 0..(pos - 1) : e[i][1] < key
    /\ pos < n => e[pos][1] >= key

\* Insert(key) finds its target leaf full, and key is not in it
SplitsLeaf(key) ==
  LET leaf == pages[Back(Descend(pages, root_page_id_, key))]
  IN leaf.size = leaf.max /\ \A i \in 0..(leaf.size - 1) : leaf.K[i] # key

\* the number of entries a leaf of m entries keeps in a split: ceil(m/2)
Kept(m) == m - m \div 2

\* C27: an Insert into a leaf with size m == max_size leaves the first
\* ceil(m/2) entries in the old leaf and moves the rest, in order, to a new
\* leaf; new.next = old.next and old.next = new; the separator is the new
\* leaf's first key as moved, an internal page holds it and the new leaf still
\* does; the incoming key is in sorted position in the right leaf if it is
\* >= the separator and in the left leaf otherwise.  With leaf_max_size 4,
\* the Insert of 5 into the root leaf [1,2,3,4] gives [1,2] -> [3,4,5] under
\* an internal root with K[1] = 3.
C27_LeafSplit ==
  (Boundary /\ root_page_id_ # INVALID_PAGE_ID) =>
    \A k \in KeyRange :
      SplitsLeaf(k) =>
        LET leaf_id == Back(Descend(pages, root_page_id_, k))
            old == pages[leaf_id]
            m == old.size
            page_id == NewPageId(pages)
            sep == old.K[Kept(m)]
            r == Insert(Tree, k, RID(k))
            left == r.pg[leaf_id]
            right == r.pg[page_id]
        IN /\ r.ret
           /\ right.leaf /\ right.next = old.next /\ left.next = page_id
           /\ \E id \in DOMAIN r.pg : \E j \in 1..(r.pg[id].size - 1) :
                ~r.pg[id].leaf /\ r.pg[id].K[j] = sep
           /\ IF k >= sep
              THEN /\ Entries(left) = EntriesFrom(old, 0, Kept(m))
                   /\ SortedInto(Entries(right), EntriesFrom(old, Kept(m), m - Kept(m)),
                                 m - Kept(m), k, RID(k))
                   /\ right.K[0] = sep
              ELSE /\ Entries(right) = EntriesFrom(old, Kept(m), m - Kept(m))
                   /\ SortedInto(Entries(left), EntriesFrom(old, 0, Kept(m)),
                                 Kept(m), k, RID(k))
           /\ (leaf_max_size_ = 4 /\ leaf_id = root_page_id_ /\ k = 5
               /\ old.K = (0 :> 1 @@ 1 :> 2 @@ 2 :> 3 @@ 3 :> 4)) =>
                /\ ~r.pg[r.root].leaf /\ r.pg[r.root].size = 2 /\ r.pg[r.root].K[1] = 3
                /\ r.pg[r.root].V = (0 :> leaf_id @@ 1 :> page_id)
                /\ left.K = (0 :> 1 @@ 1 :> 2)
                /\ right.K = (0 :> 3 @@ 1 :> 4 @@ 2 :> 5)

\* the root leaf of a tree with leaf_max_size 4 holds 1, 2, 3, 4, and the
\* Insert of 5 splits it into [1,2] -> [3,4,5] below a new root with K[1] = 3
C27_Witness ==
  /\ Boundary /\ root_page_id_ # INVALID_PAGE_ID /\ leaf_max_size_ = 4
  /\ pages[root_page_id_].leaf
  /\ pages[root_page_id_].K = (0 :> 1 @@ 1 :> 2 @@ 2 :> 3 @@ 3 :> 4)
  /\ SplitsLeaf(5)
  /\ LET r == Insert(Tree, 5, RID(5))
     IN /\ r.root # root_page_id_ /\ r.pg[r.root].K[1] = 3
        /\ r.pg[r.pg[r.root].V[0]].K = (0 :> 1 @@ 1 :> 2)
        /\ r.pg[r.pg[r.root].V[1]].K = (0 :> 3 @@ 1 :> 4 @@ 2 :> 5)
        /\ r.pg[r.pg[r.root].V[0]].next = r.pg[r.root].V[1]

RECURSIVE InternalSplits(_, _, _, _, _)
\* the internal splits of the split up loop: (insert_key, insert_val) comes
\* from the split of page child and enters the page on top of write_set
InternalSplits(t, write_set, insert_key, insert_val, child) ==
  IF write_set = <<>> THEN {}
  ELSE IF t.pg[Back(write_set)].size < t.pg[Back(write_set)].max THEN {}
  ELSE LET id == Back(write_set)
           page_id == NewPageId(t.pg)
           s == SplitInternal(t.pg[id], insert_key, insert_val, t.imax)
       IN {[id |-> id, page_id |-> page_id, insert_key |-> insert_key,
            insert_val |-> insert_val, child |-> child, tmp_key |-> s.tmp_key]}
          \cup InternalSplits(WithSplit(t, id, page_id, s), PopBack(write_set),
                              s.tmp_key, page_id, id)

\* the internal splits of Insert(key), whose target leaf is full
SplitsOf(key) ==
  LET path == Descend(pages, root_page_id_, key)
      page_id == NewPageId(pages)
  IN InternalSplits([Tree EXCEPT !.pg = SplitLeaf(pages, Back(path), page_id, leaf_max_size_)],
                    PopBack(path), LeafTmpKey(pages[Back(path)]), page_id, Back(path))

\* the keys (from slot 1) or the children (from slot 0) of old, then mid, then
\* those of new, as one sequence
KeysAcross(old, mid, new) ==
  [i \in 1..(old.size - 1) |-> old.K[i]] \o mid \o [i \in 1..(new.size - 1) |-> new.K[i]]
ChildrenAcross(old, new) ==
  [i \in 1..old.size |-> old.V[i - 1]] \o [i \in 1..new.size |-> new.V[i - 1]]

\* the sequence seq with x directly after its element number n
InsertAfter(seq, n, x) == SubSeq(seq, 1, n) \o <<x>> \o SubSeq(seq, n + 1, Len(seq))

\* trees whose leaves hold two entries: with few keys their internal pages
\* fill up and split, for an odd and for an even internal_max_size
SplitConfigs == {<<2, 3>>, <<2, 4>>}

SplitInit ==
  /\ pages = <<>>
  /\ root_page_id_ = INVALID_PAGE_ID
  /\ \E c \in SplitConfigs : leaf_max_size_ = c[1] /\ internal_max_size_ = c[2]
  /\ kv = [k \in Keys |-> NoValue]
  /\ last = NoOp
  /\ hung = FALSE
  /\ removes = 0
  /\ order = <<>>
  /\ calls = [t \in Threads |-> Idle("none")]
  /\ serial = [pg |-> <<>>, root |-> INVALID_PAGE_ID]
  /\ root_ = TrieNode("")
  /\ stored = [key \in TrieKeys |-> NotStored]
  /\ got = [success |-> FALSE, value |-> NoValue]
  /\ latch_ = [w |-> "none", r |-> {}]
  /\ tcalls = [t \in Threads |-> TrieIdle]
  /\ ever = {}

\* the calls of this specification are Inserts
SplitNext == \E in \in InsertInputs : InsertCall(in[1], in[2])

SpecSplit == SplitInit /\ [][SplitNext]_vars

\* C28: when (sep_key, right_child) enters an internal page with size ==
\* max_size, the promoted key is a key of neither resulting page, the child
\* to its right is child[0] of the new right page, and the children of the
\* left page followed by those of the right page are the old children with
\* right_child directly after the child that was split, the keys following
\* suit; for odd and even internal_max_size and when sep_key is promoted.
C28_InternalSplit ==
  (Boundary /\ root_page_id_ # INVALID_PAGE_ID) =>
    \A k \in KeyRange :
      SplitsLeaf(k) =>
        \A x \in SplitsOf(k) :
          LET p == pages[x.id]
              r == Insert(Tree, k, RID(k))
              old == r.pg[x.id]
              new == r.pg[x.page_id]
              c == CHOOSE j \in 0..(p.size - 1) : p.V[j] = x.child
              keys == InsertAfter([i \in 1..(p.size - 1) |-> p.K[i]], c, x.insert_key)
              children == InsertAfter([i \in 1..p.size |-> p.V[i - 1]], c + 1, x.insert_val)
          IN /\ \A j \in 1..(old.size - 1) : old.K[j] # x.tmp_key
             /\ \A j \in 1..(new.size - 1) : new.K[j] # x.tmp_key
             /\ ChildrenAcross(old, new) = children
             /\ KeysAcross(old, <<x.tmp_key>>, new) = keys
             /\ new.V[0] = children[old.size + 1]
             /\ keys[old.size] = x.tmp_key

\* in a tree with internal_max_size 3 an Insert splits a leaf below a full
\* internal page and the leaf's separator itself is the key that goes up: the
\* new leaf is child[0] of the new internal page
C28_Witness ==
  /\ Boundary /\ root_page_id_ # INVALID_PAGE_ID /\ internal_max_size_ = 3
  /\ \E k \in KeyRange :
       /\ SplitsLeaf(k)
       /\ \E x \in SplitsOf(k) :
            LET r == Insert(Tree, k, RID(k))
            IN /\ x.tmp_key = x.insert_key
               /\ r.pg[x.page_id].V[0] = x.insert_val
               /\ r.pg[x.insert_val].leaf /\ r.pg[x.insert_val].K[0] = x.tmp_key
               /\ r.pg[r.root].K[1] = x.tmp_key
               /\ r.pg[r.root].V = (0 :> x.id @@ 1 :> x.page_id)

\* split propagation of Insert(key) passes the root: the target leaf is full
\* and no page above it has room (size < max_size)
RootSplits(key) ==
  /\ SplitsLeaf(key)
  /\ \A id \in Range(Descend(pages, root_page_id_, key)) : pages[id].size >= pages[id].max

\* the separator and the new right page that the split of the root gives
RootSplitGives(key) ==
  IF pages[root_page_id_].leaf
  THEN [tmp_key |-> pages[root_page_id_].K[Kept(pages[root_page_id_].size)],
        page_id |-> NewPageId(pages)]
  ELSE LET x == CHOOSE x \in SplitsOf(key) : x.id = root_page_id_
       IN [tmp_key |-> x.tmp_key, page_id |-> x.page_id]

\* C29: when split propagation passes the root (a full root leaf or a full
\* internal root) a new internal page is created with size 2, child[0] = old
\* root id, K[1] = the promoted separator, child[1] = the new right page, and
\* root_page_id is set to the new page; an Insert into a non-empty tree whose
\* root does not split leaves root_page_id unchanged.
C29_RootSplit ==
  (Boundary /\ root_page_id_ # INVALID_PAGE_ID) =>
    \A in \in InsertInputs :
      LET r == Insert(Tree, in[1], in[2])
          new_root == r.pg[r.root]
      IN IF RootSplits(in[1])
         THEN /\ r.root \notin DOMAIN pages
              /\ ~new_root.leaf /\ new_root.size = 2
              /\ new_root.V[0] = root_page_id_
              /\ new_root.K[1] = RootSplitGives(in[1]).tmp_key
              /\ new_root.V[1] = RootSplitGives(in[1]).page_id
              /\ new_root.V[1] \notin DOMAIN pages \cup {r.root}
              /\ r.pg[new_root.V[1]].leaf = pages[root_page_id_].leaf
         ELSE r.root = root_page_id_

\* a full internal root above a full leaf: the Insert into that leaf splits
\* both, and the new root has the old root and the new internal page below it
C29_Witness ==
  /\ Boundary /\ root_page_id_ # INVALID_PAGE_ID
  /\ ~pages[root_page_id_].leaf
  /\ \E k \in KeyRange :
       /\ RootSplits(k)
       /\ LET r == Insert(Tree, k, RID(k))
          IN /\ r.root # root_page_id_ /\ r.pg[r.root].size = 2
             /\ r.pg[r.root].V[0] = root_page_id_
             /\ ~r.pg[r.pg[r.root].V[1]].leaf
             /\ r.pg[r.root].K[1] = RootSplitGives(k).tmp_key

\* the under-full leaf of d steals (rather than merges), and from next
StealsFromNext(d) ==
  /\ UnderFull(d)
  /\ LET sib == Siblings(d.pg[d.root_id], d.leaf_position)
     IN /\ BiggerSize(d.pg, sib) - 1 >= GetMinSize(d.pg[d.leaf_id])
        /\ ~StealFromPrev(d.pg, sib)

\* C31: when an under-full leaf N at parent slot p borrows from its right
\* sibling R, R's former first entry is appended to N, R's remaining entries
\* shift left by one in order, and the parent's K[p+1] is R's new first key.
\* With leaf_max_size 4, leaves [1,2] -> [3,4,5] and Remove(1), the leaves
\* are [2,3] -> [4,5] and the root has K[1] = 4.
C31_LeafBorrowFromRight ==
  (Boundary /\ root_page_id_ # INVALID_PAGE_ID) =>
    \A k \in KeyRange :
      LET d == Deleted(k)
      IN StealsFromNext(d) =>
           LET N == d.pg[d.leaf_id]
               next_id == d.pg[d.root_id].V[d.leaf_position + 1]
               R == d.pg[next_id]
               r == Remove(Tree, k)
               N2 == r.pg[d.leaf_id]
               R2 == r.pg[next_id]
           IN /\ N2.size = N.size + 1
              /\ Entries(N2) = [i \in 0..N.size |->
                                  IF i < N.size THEN Entries(N)[i] ELSE Entries(R)[0]]
              /\ R2.size = R.size - 1
              /\ Entries(R2) = [i \in 0..(R.size - 2) |-> Entries(R)[i + 1]]
              /\ r.pg[d.root_id].K[d.leaf_position + 1] = R2.K[0]
              /\ (leaf_max_size_ = 4 /\ k = 1 /\ d.root_id = root_page_id_
                  /\ pages[d.leaf_id].K = (0 :> 1 @@ 1 :> 2)
                  /\ R.K = (0 :> 3 @@ 1 :> 4 @@ 2 :> 5)) =>
                   /\ N2.K = (0 :> 2 @@ 1 :> 3) /\ R2.K = (0 :> 4 @@ 1 :> 5)
                   /\ r.root = root_page_id_ /\ r.pg[r.root].K[1] = 4
                   /\ N2.next = next_id

\* the tree with leaf_max_size 4 holds 1..5 in the leaves [1,2] -> [3,4,5]
\* under the root, and Remove(1) leaves [2,3] -> [4,5] and K[1] = 4
C31_Witness ==
  /\ Boundary /\ root_page_id_ # INVALID_PAGE_ID /\ leaf_max_size_ = 4
  /\ ~pages[root_page_id_].leaf /\ pages[root_page_id_].size = 2
  /\ pages[pages[root_page_id_].V[0]].K = (0 :> 1 @@ 1 :> 2)
  /\ pages[pages[root_page_id_].V[1]].K = (0 :> 3 @@ 1 :> 4 @@ 2 :> 5)
  /\ StealsFromNext(Deleted(1))
  /\ LET r == Remove(Tree, 1)
     IN /\ r.pg[pages[root_page_id_].V[0]].K = (0 :> 2 @@ 1 :> 3)
        /\ r.pg[pages[root_page_id_].V[1]].K = (0 :> 4 @@ 1 :> 5)
        /\ r.pg[r.root].K[1] = 4 /\ ~r.blocked

\* the leaf merge of d: the leaf that survives, the leaf that is absorbed and
\* the slot of the absorbed leaf in the parent
LeafMerge(d) ==
  IF d.leaf_position # 0
  THEN [to_id |-> d.pg[d.root_id].V[d.leaf_position - 1], from_id |-> d.leaf_id,
        slot |-> d.leaf_position]
  ELSE [to_id |-> d.leaf_id, from_id |-> d.pg[d.root_id].V[d.leaf_position + 1],
        slot |-> d.leaf_position + 1]

\* C32: an under-full leaf N that cannot borrow is merged into its left
\* sibling when it has one, otherwise its right sibling is merged into N; the
\* surviving leaf holds the entries of both, in ascending order, and has the
\* absorbed leaf's next_leaf_id; the parent has lost exactly the separator
\* and the child pointer of the absorbed leaf (seen where the parent is the
\* root, which nothing rebalances); and the absorbed page is reachable
\* neither by child pointers from the root nor by next_leaf_id from a leaf.
C32_LeafMerge ==
  (Boundary /\ root_page_id_ # INVALID_PAGE_ID) =>
    \A k \in KeyRange :
      LET d == Deleted(k)
      IN (UnderFull(d) /\ ~Borrows(d)) =>
           LET g == LeafMerge(d)
               r == Remove(Tree, k)
               parent == d.pg[d.root_id]
           IN /\ Concat(r.pg[g.to_id], d.pg[g.to_id], d.pg[g.from_id])
              /\ \A j \in 1..(r.pg[g.to_id].size - 1) :
                   r.pg[g.to_id].K[j - 1] < r.pg[g.to_id].K[j]
              /\ r.pg[g.to_id].next = d.pg[g.from_id].next
              /\ ~r.blocked => g.from_id \notin Reach(r.pg, {r.root}, {})
              /\ d.root_id = root_page_id_ =>
                   /\ r.pg[d.root_id].size = parent.size - 1
                   /\ \A j \in 0..(parent.size - 2) :
                        /\ r.pg[d.root_id].V[j] = parent.V[IF j < g.slot THEN j ELSE j + 1]
                        /\ j >= 1 => r.pg[d.root_id].K[j]
                                       = parent.K[IF j < g.slot THEN j ELSE j + 1]

\* Remove(key) after its leaf merge and the delete of the leaves' separator
\* from their parent node_id, which has a parent itself: the tree, node_id,
\* its parent and its slot there
Cascaded(key) ==
  LET path == Descend(pages, root_page_id_, key)
      d == Deleted(key)
      g == LeafMerge(d)
  IN [pg |-> [MergeLeaf(d.pg, g.to_id, g.from_id) EXCEPT
                ![d.root_id] = DeleteKey(@, 1, d.pg[d.root_id].K[g.slot])],
      node_id |-> d.root_id,
      parent_id |-> path[Len(path) - 2],
      position |-> PositionSet(pages, path, key)[Len(path) - 2]]

\* the node of c is merged with a sibling: none of them can spare an entry
InternalMerges(c) ==
  BiggerSize(c.pg, Siblings(c.pg[c.parent_id], c.position)) - 1
    < GetMinSize(c.pg[c.node_id])

\* the internal merge of c: the page that survives, the page that is
\* absorbed and the slot of the absorbed page in the parent
InternalMergeOf(c) ==
  IF c.position # 0
  THEN [to_id |-> c.pg[c.parent_id].V[c.position - 1], from_id |-> c.node_id,
        slot |-> c.position]
  ELSE [to_id |-> c.node_id, from_id |-> c.pg[c.parent_id].V[c.position + 1],
        slot |-> c.position + 1]

\* C33: when two adjacent internal siblings under parent P are merged, the
\* surviving left node holds its own entries, then the pair (P's separator
\* between the two, the right node's child[0]), then the right node's other
\* (key, child) pairs in order; P loses exactly that separator and the
\* pointer to the right node; no child pointer is lost or duplicated.
C33_InternalMerge ==
  (Boundary /\ root_page_id_ # INVALID_PAGE_ID) =>
    \A k \in KeyRange :
      (MergesBelowInner(Deleted(k)) /\ InternalMerges(Cascaded(k))) =>
        LET c == Cascaded(k)
            g == InternalMergeOf(c)
            to == c.pg[g.to_id]
            from == c.pg[g.from_id]
            P == c.pg[c.parent_id]
            r == Remove(Tree, k)
            merged == r.pg[g.to_id]
        IN /\ merged.size = to.size + from.size
           /\ \A j \in 0..(merged.size - 1) :
                /\ merged.V[j] = IF j < to.size THEN to.V[j] ELSE from.V[j - to.size]
                /\ j >= 1 => merged.K[j] = IF j < to.size THEN to.K[j]
                                           ELSE IF j = to.size THEN P.K[g.slot]
                                           ELSE from.K[j - to.size]
           /\ c.parent_id = root_page_id_ =>
                /\ r.pg[c.parent_id].size = P.size - 1
                /\ \A j \in 0..(P.size - 2) :
                     /\ r.pg[c.parent_id].V[j] = P.V[IF j < g.slot THEN j ELSE j + 1]
                     /\ j >= 1 => r.pg[c.parent_id].K[j]
                                    = P.K[IF j < g.slot THEN j ELSE j + 1]

\* a Remove merges two leaves below an internal page that is not the root,
\* and that page, with one separator less, has been merged with its sibling
C33_Witness ==
  /\ Boundary /\ root_page_id_ # INVALID_PAGE_ID
  /\ \E k \in KeyRange :
       /\ MergesBelowInner(Deleted(k)) /\ InternalMerges(Cascaded(k))
       /\ LET c == Cascaded(k)
              g == InternalMergeOf(c)
              r == Remove(Tree, k)
          IN /\ ~r.blocked
             /\ r.pg[g.to_id].size = c.pg[g.to_id].size + c.pg[g.from_id].size
             /\ r.pg[g.to_id].K[c.pg[g.to_id].size] = c.pg[c.parent_id].K[g.slot]
             /\ r.pg[g.to_id].V[c.pg[g.to_id].size] = c.pg[g.from_id].V[0]

\* a tree of height 3 whose internal pages hold three and four children has
\* seven leaves: with leaves of two entries that takes nine keys
BorrowKeys == 0..(MaxKey + 2)
BorrowConfigs == {<<2, 4>>}

BorrowInit ==
  /\ pages = <<>>
  /\ root_page_id_ = INVALID_PAGE_ID
  /\ \E c \in BorrowConfigs : leaf_max_size_ = c[1] /\ internal_max_size_ = c[2]
  /\ kv = [k \in Keys |-> NoValue]
  /\ last = NoOp
  /\ hung = FALSE
  /\ removes = 0
  /\ order = <<>>
  /\ calls = [t \in Threads |-> Idle("none")]
  /\ serial = [pg |-> <<>>, root |-> INVALID_PAGE_ID]
  /\ root_ = TrieNode("")
  /\ stored = [key \in TrieKeys |-> NotStored]
  /\ got = [success |-> FALSE, value |-> NoValue]
  /\ latch_ = [w |-> "none", r |-> {}]
  /\ tcalls = [t \in Threads |-> TrieIdle]
  /\ ever = {}

\* the calls of this specification are Inserts of keys that are not stored
BorrowNext ==
  \E key \in BorrowKeys : kv[key] = NoValue /\ InsertCall(key, RID(key))

SpecBorrow == BorrowInit /\ [][BorrowNext]_vars

\* the (key, child) pairs of internal page p as a sequence: <<K[j], V[j]>> for
\* the slots j from 1 on
Pairs(p) == [j \in 1..(p.size - 1) |-> <<p.K[j], p.V[j]>>]

\* C34: when an internal node N borrows from its left (right) sibling, the
\* parent's separator between them comes down into N as the key of the
\* child that moves, the sibling's boundary key goes up in its place, exactly
\* one child pointer moves, the order of all child pointers of N and the
\* sibling is kept for an N of any size, and no page above changes size.
C34_InternalBorrow ==
  (Boundary /\ root_page_id_ # INVALID_PAGE_ID) =>
    \A k \in BorrowKeys :
      (MergesBelowInner(Deleted(k)) /\ ~InternalMerges(Cascaded(k))) =>
        LET c == Cascaded(k)
            sib == Siblings(c.pg[c.parent_id], c.position)
            N == c.pg[c.node_id]
            P == c.pg[c.parent_id]
            r == Remove(Tree, k)
            N2 == r.pg[c.node_id]
        IN /\ r.pg[c.parent_id].size = P.size
           /\ r.root = root_page_id_
           /\ IF StealFromPrev(c.pg, sib)
              THEN LET L == c.pg[sib.prev]
                       L2 == r.pg[sib.prev]
                   IN /\ N2.size = N.size + 1 /\ L2.size = L.size - 1
                      /\ N2.V[0] = L.V[L.size - 1]
                      /\ Pairs(N2) = <<<<P.K[c.position], N.V[0]>>>> \o Pairs(N)
                      /\ r.pg[c.parent_id].K[c.position] = L.K[L.size - 1]
                      /\ L2.V[0] = L.V[0] /\ Pairs(L2) = SubSeq(Pairs(L), 1, L.size - 2)
              ELSE LET R == c.pg[sib.next]
                       R2 == r.pg[sib.next]
                   IN /\ N2.size = N.size + 1 /\ R2.size = R.size - 1
                      /\ N2.V[0] = N.V[0]
                      /\ Pairs(N2) = Pairs(N) \o <<<<P.K[c.position + 1], R.V[0]>>>>
                      /\ r.pg[c.parent_id].K[c.position + 1] = R.K[1]
                      /\ R2.V[0] = R.V[1] /\ Pairs(R2) = SubSeq(Pairs(R), 2, R.size - 1)

\* C35: when a merge leaves the internal root with size 1, the header's
\* root_page_id is set to its one child within the same Remove, so at every
\* operation boundary the root is not an internal page of size <= 1, and
\* IsEmpty never answers from its branch for such a root.
C35_RootCollapse ==
  Boundary =>
    /\ root_page_id_ # INVALID_PAGE_ID =>
         (pages[root_page_id_].leaf \/ pages[root_page_id_].size >= 2)
    /\ root_page_id_ # INVALID_PAGE_ID =>
         \A k \in KeyRange :
           LET r == Remove(Tree, k)
           IN (~r.blocked /\ ~pages[root_page_id_].leaf) =>
                IF r.pg[root_page_id_].size = 1
                THEN r.root = r.pg[root_page_id_].V[0]
                ELSE r.root = root_page_id_ /\ r.pg[root_page_id_].size >= 2

\* a Remove merges the last two children of an internal root, and their
\* survivor is the root when the Remove returns
C35_Witness ==
  /\ Boundary /\ root_page_id_ # INVALID_PAGE_ID /\ ~pages[root_page_id_].leaf
  /\ \E k \in KeyRange :
       LET r == Remove(Tree, k)
       IN /\ ~r.blocked /\ r.pg[root_page_id_].size = 1
          /\ r.root = r.pg[root_page_id_].V[0] /\ r.root # root_page_id_
          /\ ~IsEmpty(r.pg, r.root)

RECURSIVE SplitUpGuard(_, _, _)
\* the guards of the split up loop: guard holds the page the loop works on,
\* write_set the pages above it; a page with room ends the loop, a full page
\* with nothing above it leaves for ROOT_SPLIT, and otherwise the parent's
\* guard is moved into guard, which drops the guard that was there.  The
\* result is <<write_set, guard>> as the loop leaves them
SplitUpGuard(pg, write_set, guard) ==
  IF pg[guard].size < pg[guard].max THEN <<write_set, guard>>
  ELSE IF write_set = <<>> THEN <<write_set, guard>>
  ELSE SplitUpGuard(pg, PopBack(write_set), Back(write_set))

\* the pages above the target leaf on which Insert(key) still holds a write
\* guard when it comes to INSERTION_END
HeldAtInsertionEnd(key) ==
  LET write_set == PopBack(Descend(pages, root_page_id_, key))
  IN IF ~SplitsLeaf(key) \/ write_set = <<>> THEN Range(write_set)
     ELSE LET g == SplitUpGuard(pages, PopBack(write_set), Back(write_set))
          IN Range(g[1]) \cup {g[2]}

\* C36: pessimistic latching: when an Insert that returns true comes to its
\* leaf edit (INSERTION_END), it still holds the write guard of every page of
\* its descent path above the leaf, however far the split has propagated
C36_PessimisticLatching ==
  (Boundary /\ root_page_id_ # INVALID_PAGE_ID) =>
    \A k \in KeyRange :
      Insert(Tree, k, RID(k)).ret =>
        Range(PopBack(Descend(pages, root_page_id_, k))) \subseteq HeldAtInsertionEnd(k)

\* the page into which Insert(key) puts a propagated separator because it has
\* room (lines 242-260), or INVALID_PAGE_ID when no separator is propagated
\* or it ends in a new root
InsertReceiver(key) ==
  LET write_set == PopBack(Descend(pages, root_page_id_, key))
  IN IF ~SplitsLeaf(key) \/ write_set = <<>> THEN INVALID_PAGE_ID
     ELSE LET g == SplitUpGuard(pages, PopBack(write_set), Back(write_set))
          IN IF pages[g[2]].size < pages[g[2]].max THEN g[2] ELSE INVALID_PAGE_ID

\* the BUSTUB_ASSERTs of the split up loop that Insert(key) trips in this
\* state: the page that receives the separator is internal and has size > 1
AssertsOfInsert(key) ==
  LET id == InsertReceiver(key)
  IN IF id = INVALID_PAGE_ID THEN {}
     ELSE (IF pages[id].leaf THEN {"leaf"} ELSE {})
          \cup (IF pages[id].size > 1 THEN {} ELSE {"size"})

\* C37: no BUSTUB_ASSERT of Insert or Remove fails in a reachable state: every
\* internal page of the tree has at least two children, so a page that
\* receives a propagated separator has size > 1 and an under-full node has a
\* sibling; the separator to delete is found in the parent in [1, size - 1];
\* and a borrow from the left never finds the deleted separator equal to the
\* parent's key at the traversed slot.
C37_NoAssertFails ==
  (Boundary /\ root_page_id_ # INVALID_PAGE_ID) =>
    /\ \A id \in DOMAIN Live(pages, root_page_id_) :
         ~pages[id].leaf => pages[id].size >= 2
    /\ \A k \in KeyRange :
         AssertsOfInsert(k) = {} /\ AssertsOfRemove(k) = {}

\* a Remove deletes a separator from an internal page that then borrows from
\* its left sibling, and trips no assert
C37_Witness ==
  /\ Boundary /\ root_page_id_ # INVALID_PAGE_ID
  /\ \E k \in KeyRange :
       /\ MergesBelowInner(Deleted(k)) /\ ~InternalMerges(Cascaded(k))
       /\ StealFromPrev(Cascaded(k).pg,
                        Siblings(Cascaded(k).pg[Cascaded(k).parent_id], Cascaded(k).position))
       /\ AssertsOfRemove(k) = {}

\* ------------------------------------- Insert of storage/index/b_plus_tree.cpp
\* the largest key of the calls of SpecCpp
CppMaxKey == 5
CppKeys == 0..CppMaxKey
\* <<leaf_max_size, internal_max_size>> of the trees of SpecCpp
CppConfigs == {<<2, 8>>, <<3, 8>>}

\* the split of full internal page p: the new page takes the entries from
\* slot (m + 1) / 2 on into its slots 1, 2, ..., its slot 0 stays as Init left
\* it, and (insert_key, insert_val) always enters the new page
SplitInternalCpp(p, insert_key, insert_val, internal_max) ==
  LET m == p.size
      new_page == IncreaseSize(InternalInit(internal_max), m \div 2)
      filled == [new_page EXCEPT
                   !.K = Arr(new_page.size,
                             LAMBDA idx : IF idx >= 1 THEN p.K[(m + 1) \div 2 + idx - 1]
                                          ELSE new_page.K[0]),
                   !.V = Arr(new_page.size,
                             LAMBDA idx : IF idx >= 1 THEN p.V[(m + 1) \div 2 + idx - 1]
                                          ELSE new_page.V[0])]
  IN [old |-> IncreaseSize(p, -(m \div 2)),
      new |-> InternalInsert(filled, insert_key, insert_val),
      tmp_key |-> p.K[(m + 1) \div 2]]

\* after the do-while: a root of size max_size is split under a new root, any
\* other root is left as it is
AfterLoopCpp(t, root_id, insert_key, insert_val) ==
  IF t.pg[root_id].size # t.pg[root_id].max THEN t
  ELSE LET new_root_page_id == NewPageId(t.pg)
           page_id == new_root_page_id + 1
           s == SplitInternalCpp(t.pg[root_id], insert_key, insert_val, t.imax)
       IN [t EXCEPT !.pg = (new_root_page_id :> NewRoot(t.imax, t.root, s.tmp_key, page_id))
                             @@ (page_id :> s.new)
                             @@ [t.pg EXCEPT ![root_id] = s.old],
                    !.root = new_root_page_id]

RECURSIVE SplitUpCpp(_, _, _, _, _)
\* the do-while: (insert_key, insert_val) is to enter page root_id, write_set
\* holds the pages above it
SplitUpCpp(t, root_id, write_set, insert_key, insert_val) ==
  IF t.pg[root_id].size < t.pg[root_id].max
  THEN [t EXCEPT !.pg[root_id] = InternalInsert(@, insert_key, insert_val)]
  ELSE IF write_set = <<>> THEN AfterLoopCpp(t, root_id, insert_key, insert_val)
  ELSE LET page_id == NewPageId(t.pg)
           s == SplitInternalCpp(t.pg[root_id], insert_key, insert_val, t.imax)
       IN IF PopBack(write_set) = <<>>
          THEN AfterLoopCpp(WithSplit(t, root_id, page_id, s), Back(write_set),
                            s.tmp_key, page_id)
          ELSE SplitUpCpp(WithSplit(t, root_id, page_id, s), Back(write_set),
                          PopBack(write_set), s.tmp_key, page_id)

\* the full leaf leaf_id is split, leaf = std::move(new_page) makes the new
\* leaf the one that receives the key, and the separator goes up
InsertWithSplitCpp(t, key, value, leaf_id, write_set, page_id, tmp_key) ==
  LET placed == [t EXCEPT !.pg = [SplitLeaf(t.pg, leaf_id, page_id, t.lmax)
                                    EXCEPT ![page_id] = LeafInsert(@, key, value)]]
  IN IF write_set = <<>> THEN RootSplit(placed, tmp_key, page_id)
     ELSE SplitUpCpp(placed, Back(write_set), PopBack(write_set), tmp_key, page_id)

\* Insert of b_plus_tree.cpp; t is [pg, root, lmax, imax], the result is
\* [pg, root, ret]
InsertCpp(t, key, value) ==
  IF t.root = INVALID_PAGE_ID
  THEN [pg |-> (NewPageId(t.pg) :> SetAt(IncreaseSize(LeafInit(t.lmax), 1), 0, key, value))
                 @@ t.pg,
        root |-> NewPageId(t.pg), ret |-> TRUE]
  ELSE LET path == Descend(t.pg, t.root, key)
           leaf == t.pg[Back(path)]
       IN IF DuplicateCheck(leaf, key)
          THEN [pg |-> t.pg, root |-> t.root, ret |-> FALSE]
          ELSE IF leaf.size # leaf.max
          THEN InsertionEnd(t, Back(path), key, value)
          ELSE LET up == InsertWithSplitCpp(t, key, value, Back(path), PopBack(path),
                                            NewPageId(t.pg), LeafTmpKey(leaf))
               IN [pg |-> up.pg, root |-> up.root, ret |-> TRUE]

CppInit ==
  /\ pages = <<>>
  /\ root_page_id_ = INVALID_PAGE_ID
  /\ \E c \in CppConfigs : leaf_max_size_ = c[1] /\ internal_max_size_ = c[2]
  /\ kv = [k \in Keys |-> NoValue]
  /\ last = NoOp
  /\ hung = FALSE
  /\ removes = 0
  /\ order = <<>>
  /\ calls = [t \in Threads |-> Idle("none")]
  /\ serial = [pg |-> <<>>, root |-> INVALID_PAGE_ID]
  /\ root_ = TrieNode("")
  /\ stored = [key \in TrieKeys |-> NotStored]
  /\ got = [success |-> FALSE, value |-> NoValue]
  /\ latch_ = [w |-> "none", r |-> {}]
  /\ tcalls = [t \in Threads |-> TrieIdle]
  /\ ever = {}

\* the calls of this specification are Inserts of b_plus_tree.cpp, each key
\* once
CppNext ==
  \E key \in CppKeys :
    /\ kv[key] = NoValue
    /\ InsertReturns(key, RID(key), InsertCpp(Tree, key, RID(key)))
    /\ UNCHANGED <<leaf_max_size_, internal_max_size_, hung, removes, order>>
    /\ UNCHANGED <<conc_vars, trie_vars>>

SpecCpp == CppInit /\ [][CppNext]_vars

\* Insert(key) of b_plus_tree.cpp finds its target leaf full, and key is not
\* in it
SplitsLeafCpp(key) ==
  /\ root_page_id_ # INVALID_PAGE_ID
  /\ SplitsLeaf(key)

\* C38: Insert of b_plus_tree.cpp, when it splits the full target leaf, puts
\* the incoming key in the old (left) leaf if it is smaller than the promoted
\* separator and in the new (right) leaf otherwise; the keys stay ascending
\* along the leaf chain, and GetValue(k) directly after the Insert(k, v) that
\* returned true finds v.
C38_SplitPlacement ==
  \A k \in CppKeys :
    SplitsLeafCpp(k) =>
      LET path == Descend(pages, root_page_id_, k)
          leaf_id == Back(path)
          page_id == NewPageId(pages)
          tmp_key == LeafTmpKey(pages[leaf_id])
          r == InsertCpp(Tree, k, RID(k))
          scan == Scan(r.pg, r.root)
      IN /\ r.ret
         /\ IF k < tmp_key THEN DuplicateCheck(r.pg[leaf_id], k)
                           ELSE DuplicateCheck(r.pg[page_id], k)
         /\ \A i \in 1..(Len(scan) - 1) : scan[i][1] < scan[i + 1][1]
         /\ GetValue(r.pg, r.root, k) = <<TRUE, <<RID(k)>> >>

\* thread t's Remove runs in this step, while thread u is inside an Insert of
\* another key whose `t` points into the trie
RemoveBesideInsert(t, u) ==
  /\ tcalls[t].op = "Remove" /\ tcalls[t].pc = "locked" /\ tcalls'[t].pc = "idle"
  /\ tcalls[u].op = "Insert" /\ tcalls[u].pc = "loop" /\ tcalls[u].valid
  /\ tcalls[u].key # tcalls[t].key

\* C39: a Remove(k2) that runs while an Insert(k1, v), k1 # k2, is between two
\* of its passes erases no node that the Insert has created or is going to
\* extend: the node the Insert continues from is still in the trie.
C39_RemoveSparesInsert ==
  [][\A t \in Threads : \A u \in Threads :
       RemoveBesideInsert(t, u) => tcalls'[u].valid]_vars

\* path p leads towards key k
IsPrefix(p, k) == Len(p) <= Len(k) /\ SubSeq(k, 1, Len(p)) = p

\* C40: between completed Trie calls every node but the root that has no
\* children is a terminal node; every node is on the path of a key that is
\* stored, i.e. Remove has erased the nodes that belong to no stored key; and a
\* Remove that returns false leaves the nodes as they were.
C40_TriePruned ==
  /\ \A p \in PathsBelow(root_, <<>>) :
       ~HasChildren(NodeAt(root_, p)) => IsEndNode(NodeAt(root_, p))
  /\ \A p \in PathsBelow(root_, <<>>) :
       \E key \in TrieKeys : stored[key] # NotStored /\ IsPrefix(p, key)
  /\ \A key \in TrieKeys :
       (~TrieRemove(root_, key).threw /\ ~TrieRemove(root_, key).ret) =>
         TrieRemove(root_, key).node = root_

====
